---- MODULE Spec2Model ----
(***************************************************************************)
(* The server-side simulation subsystem of the multiplayer world: the     *)
(* GameManager (registry, tick timer, game loop), the PhysicsWorld body   *)
(* registry, the Player entity (input record, rigid body) and the         *)
(* InputHandler (validation, rate limiting), driven by the socket         *)
(* handlers of server/index.js.  All handlers run on one thread, so each  *)
(* handler is one atomic action.                                          *)
(***************************************************************************)
EXTENDS Integers, Sequences, FiniteSets, TLC

VARIABLES
  isEnabled,         \* PhysicsWorld.isEnabled
  hasWorld,          \* PhysicsWorld.world is a CANNON.World (not null)
  worldBodies,       \* PhysicsWorld.world.bodies (the ground and the player bodies)
  players,           \* GameManager.players: socket id -> Player
  playerOrder,       \* insertion order of GameManager.players (Map iteration order)
  gameLoopInterval,  \* GameManager.gameLoopInterval: a timer handle or Null
  timers,            \* the interval timers that are active in the runtime
  lastInputTime,     \* InputHandler.lastInputTime: socket id -> ms
  now,               \* Date.now()
  connected,         \* the sockets whose connection is live
  lastApplied,       \* history: when updateInput last ran for a live connection
  lastSet,           \* history: per live connection and key, the value of the most
                     \* recent applied record that contained the key
  ev,                \* history: the handler that ran last and what it did
  thePlayer,         \* one Player followed through its updates: input record,
                     \* grounded flag and the state of its rigid body
  call               \* a single call of a pure function: its argument and its result

vars == <<isEnabled, hasWorld, worldBodies, players, playerOrder, gameLoopInterval, timers,
          lastInputTime, now, connected, lastApplied, lastSet, ev, thePlayer, call>>

-----------------------------------------------------------------------------
(* Bounds of the model *)

SocketIds == {"s1", "s2"}
MaxBodies == 3
MaxTimers == 2
StartTime == 16
TimeStep == 12
MaxTime == 40

(* Program constants *)

INPUT_RATE_LIMIT == 16

validInputs == <<"left", "right", "forward", "backward", "jump">>

NoTimer == 0   \* gameLoopInterval = null
NoBody == -1   \* a Player without this.body
Ground == 0    \* PhysicsWorld.groundBody
BodyIds == 1..MaxBodies
TimerIds == 1..MaxTimers

EmptyMap == [k \in {} |-> 0]

Range(s) == {s[i] : i \in 1..Len(s)}

-----------------------------------------------------------------------------
(* JavaScript values as they arrive in a playerInput message *)

JSUndefined == [t |-> "undefined"]
JSNull == [t |-> "null"]
JSBool(b) == [t |-> "boolean", v |-> b]
JSNum(n) == [t |-> "number", v |-> n]
JSStr(s) == [t |-> "string", v |-> s]
JSObj(props) == [t |-> "object", props |-> props]

typeof(x) == IF x.t = "null" THEN "object" ELSE x.t

ToBoolean(x) ==
  CASE x.t = "undefined" -> FALSE
    [] x.t = "null" -> FALSE
    [] x.t = "boolean" -> x.v
    [] x.t = "number" -> x.v # 0
    [] x.t = "string" -> x.v # ""
    [] OTHER -> TRUE

-----------------------------------------------------------------------------
(* InputHandler *)

\* variant of validateInput: keeps a key as true only when its value is the boolean true
validateInputNoCoercion(inputData) ==
  IF ~ToBoolean(inputData) \/ typeof(inputData) # "object"
    THEN JSNull
    ELSE JSObj([k \in Range(validInputs) \cap DOMAIN inputData.props |->
                  inputData.props[k] = JSBool(TRUE)])

validateInput(inputData) ==
  IF ~ToBoolean(inputData) \/ typeof(inputData) # "object"
    THEN JSNull
    ELSE JSObj([k \in Range(validInputs) \cap DOMAIN inputData.props |->
                  ToBoolean(inputData.props[k])])


\* variant of shouldProcessInput: stamps the arrival time of a dropped input too
shouldProcessInputStampAlways(lit, playerId, t) ==
  LET lastTime == IF playerId \in DOMAIN lit /\ lit[playerId] # 0
                    THEN lit[playerId] ELSE 0
      stamped == [k \in DOMAIN lit \cup {playerId} |->
                    IF k = playerId THEN t ELSE lit[k]]
  IN  [ret |-> t - lastTime >= INPUT_RATE_LIMIT, lastInputTime |-> stamped]

\* variant of shouldProcessInput: the window must have been exceeded
shouldProcessInputStrict(lit, playerId, t) ==
  LET lastTime == IF playerId \in DOMAIN lit /\ lit[playerId] # 0
                    THEN lit[playerId] ELSE 0
  IN  IF t - lastTime > INPUT_RATE_LIMIT
        THEN [ret |-> TRUE,
              lastInputTime |-> [k \in DOMAIN lit \cup {playerId} |->
                                   IF k = playerId THEN t ELSE lit[k]]]
        ELSE [ret |-> FALSE, lastInputTime |-> lit]

\* returns the verdict and the lastInputTime map after the call
shouldProcessInput(lit, playerId, t) ==
  LET lastTime == IF playerId \in DOMAIN lit /\ lit[playerId] # 0
                    THEN lit[playerId] ELSE 0
  IN  IF t - lastTime >= INPUT_RATE_LIMIT
        THEN [ret |-> TRUE,
              lastInputTime |-> [k \in DOMAIN lit \cup {playerId} |->
                                   IF k = playerId THEN t ELSE lit[k]]]
        ELSE [ret |-> FALSE, lastInputTime |-> lit]

\* variant of updateInput: replaces the record instead of merging into it
updateInputReplace(player, inputData) ==
  [player EXCEPT !.input = [k \in Range(validInputs) |->
     IF k \in DOMAIN inputData.props THEN inputData.props[k] ELSE FALSE]]

\* this.input = { ...this.input, ...inputData }
updateInput(player, inputData) ==
  [player EXCEPT !.input = inputData.props @@ @]

\* variant of processInput: a record without recognised keys is not an input
processInputSkipEmpty(lit, playerId, inputData, player, t) ==
  LET validInput == validateInput(inputData)
  IN  IF ~ToBoolean(validInput) \/ DOMAIN validInput.props = {}
        THEN [ret |-> FALSE, lastInputTime |-> lit, player |-> player]
        ELSE LET limit == shouldProcessInput(lit, playerId, t)
             IN  IF ~limit.ret
                   THEN [ret |-> FALSE, lastInputTime |-> limit.lastInputTime,
                         player |-> player]
                   ELSE [ret |-> TRUE, lastInputTime |-> limit.lastInputTime,
                         player |-> updateInput(player, validInput)]

\* variant of processInput: consults the rate limit before validating
processInputLimitFirst(lit, playerId, inputData, player, t) ==
  LET validInput == validateInput(inputData)
      limit == shouldProcessInput(lit, playerId, t)
  IN  IF ~limit.ret
        THEN [ret |-> FALSE, lastInputTime |-> limit.lastInputTime, player |-> player]
        ELSE IF ~ToBoolean(validInput)
          THEN [ret |-> FALSE, lastInputTime |-> limit.lastInputTime, player |-> player]
          ELSE [ret |-> TRUE, lastInputTime |-> limit.lastInputTime,
                player |-> updateInput(player, validInput)]

\* returns the return value, the lastInputTime map and the player after the call
processInput(lit, playerId, inputData, player, t) ==
  LET validInput == validateInput(inputData)
  IN  IF ~ToBoolean(validInput)
        THEN [ret |-> FALSE, lastInputTime |-> lit, player |-> player]
        ELSE LET limit == shouldProcessInput(lit, playerId, t)
             IN  IF ~limit.ret
                   THEN [ret |-> FALSE, lastInputTime |-> limit.lastInputTime,
                         player |-> player]
                   ELSE [ret |-> TRUE, lastInputTime |-> limit.lastInputTime,
                         player |-> updateInput(player, validInput)]

\* variant of cleanupPlayer: the entry is kept
cleanupPlayerKeep(lit, playerId) == lit

cleanupPlayer(lit, playerId) == [k \in DOMAIN lit \ {playerId} |-> lit[k]]

-----------------------------------------------------------------------------
(* PhysicsWorld: world is the set of bodies registered in the solver *)

\* where initialize() throws: nowhere, in `new CANNON.World` (world stays
\* null), or after it and before the ground is in the world
InitFaults == {"none", "world", "ground"}

\* variant of initialize: the catch block leaves the flag set
initializeFlagOnFailure(fault) ==
  [hasWorld |-> fault # "world",
   bodies |-> IF fault = "none" THEN {Ground} ELSE {},
   isEnabled |-> TRUE,
   ret |-> fault = "none"]

\* PhysicsWorld.initialize(): the fields it leaves and the value it returns
initialize(fault) ==
  [hasWorld |-> fault # "world",
   bodies |-> IF fault = "none" THEN {Ground} ELSE {},
   isEnabled |-> fault = "none",
   ret |-> fault = "none"]

addBody(world, body) == IF hasWorld /\ isEnabled THEN world \cup {body} ELSE world

removeBody(world, body) == IF hasWorld /\ isEnabled THEN world \ {body} ELSE world

-----------------------------------------------------------------------------
(* The game record g that the GameManager methods transform: its registry  *)
(* (players, order), the physics world, the tick timer, and what the       *)
(* running handler has done so far: log (calls and emits, in order),       *)
(* released (the removeBody calls, in order), threw (an exception left it) *)

Game ==
  [players |-> players, order |-> playerOrder, world |-> worldBodies,
   interval |-> gameLoopInterval, timers |-> timers,
   log |-> <<>>, released |-> <<>>, threw |-> FALSE]

NoInput == [k \in Range(validInputs) |-> FALSE]

OwnedBodies(g) == {g.players[p].body : p \in DOMAIN g.players} \ {NoBody}

FreeBodies(g) == BodyIds \ (g.world \cup OwnedBodies(g))

FreeTimers(g) == TimerIds \ g.timers

Min(S) == CHOOSE x \in S : \A y \in S : x <= y

(* Player *)

\* variant of createPhysicsBody: a body is made whatever the state of the world
createPhysicsBodyAlways(g, id) ==
  LET body == Min(FreeBodies(g))
  IN  [g |-> [g EXCEPT !.world = addBody(@, body)],
       player |-> [id |-> id, body |-> body, input |-> NoInput]]

\* new Player(id, physicsWorld, ...): the constructor and createPhysicsBody
createPhysicsBody(g, id) ==
  IF ~isEnabled
    THEN [g |-> g,
          player |-> [id |-> id, body |-> NoBody, input |-> NoInput]]
    ELSE LET body == Min(FreeBodies(g))
         IN  [g |-> [g EXCEPT !.world = addBody(@, body)],
              player |-> [id |-> id, body |-> body, input |-> NoInput]]

\* variant of update: clears the jump intent once it has been read
updateConsumesJump(player) ==
  [player EXCEPT !.input = [@ EXCEPT !.jump = FALSE]]

\* the branch of Player.update: updateSimpleMovement when the participant has
\* no body or the world is not enabled, the physics-backed steps otherwise
updatePath(player) ==
  IF player.body = NoBody \/ ~isEnabled THEN "simple" ELSE "physics"

\* Player.update reads this.input and moves the body (physics mode) or the
\* stored position (fallback mode); position, velocity and the grounded flag
\* are not part of this model's state, and id, body and input are not assigned
update(player) == player

destroy(g, player) ==
  IF player.body # NoBody
    THEN [g EXCEPT !.world = removeBody(@, player.body),
                   !.released = Append(@, player.body)]
    ELSE g

(* GameManager *)

\* variant of startGameLoop: no check for a running loop
startGameLoopNoGuard(g) ==
  LET t == Min(FreeTimers(g))
  IN  [g EXCEPT !.interval = t, !.timers = @ \cup {t}]

startGameLoop(g) ==
  IF g.interval # NoTimer
    THEN [g EXCEPT !.log = Append(@, <<"warn">>)]
    ELSE LET t == Min(FreeTimers(g))
         IN  [g EXCEPT !.interval = t, !.timers = @ \cup {t}]

\* variant of stopGameLoop: the field is reset but the timer is not cleared
stopGameLoopNoClear(g) ==
  IF g.interval # NoTimer
    THEN [g EXCEPT !.interval = NoTimer,
                   !.log = Append(@, <<"clearInterval", g.interval>>)]
    ELSE g

stopGameLoop(g) ==
  IF g.interval # NoTimer
    THEN [g EXCEPT !.timers = @ \ {g.interval}, !.interval = NoTimer,
                   !.log = Append(@, <<"clearInterval", g.interval>>)]
    ELSE g

\* this.physicsWorld.step()
step(g) == [g EXCEPT !.log = Append(@, <<"step">>)]

\* variant of updateEach: an update works on the default record, not on
\* the record the input handler has stored
RECURSIVE updateEachDefaultInput(_, _)
updateEachDefaultInput(g, ids) ==
  IF ids = <<>>
    THEN g
    ELSE LET id == Head(ids)
         IN  updateEachDefaultInput(
               [g EXCEPT !.players[id] = update(@),
                         !.log = Append(@, <<"update", id, NoInput,
                                             updatePath(g.players[id])>>)],
               Tail(ids))

\* player.update(deltaTime) for each registry entry, in the Map's order; the
\* log entry of an update carries the input record the update reads and the
\* branch it takes
RECURSIVE updateEach(_, _)
updateEach(g, ids) ==
  IF ids = <<>>
    THEN g
    ELSE LET id == Head(ids)
         IN  updateEach([g EXCEPT !.players[id] = update(@),
                                  !.log = Append(@, <<"update", id, g.players[id].input,
                                                      updatePath(g.players[id])>>)],
                        Tail(ids))

updateAllPlayers(g) == updateEach(g, g.order)

\* variant of broadcastGameState: the snapshot holds the first participant only
broadcastGameStateFirstOnly(g) ==
  IF Len(g.order) > 0
    THEN [g EXCEPT !.log = Append(@, <<"gameUpdate", SubSeq(g.order, 1, 1)>>)]
    ELSE g

\* variant of broadcastGameState: no check of the registry size
broadcastGameStateAlways(g) ==
  [g EXCEPT !.log = Append(@, <<"gameUpdate", g.order>>)]

broadcastGameState(g) ==
  IF Len(g.order) > 0
    THEN [g EXCEPT !.log = Append(@, <<"gameUpdate", g.order>>)]
    ELSE g

\* variant of gameLoop: the participants are updated before the world is stepped
gameLoopUpdateFirst(g) == broadcastGameState(step(updateAllPlayers(g)))

gameLoop(g) == broadcastGameState(updateAllPlayers(step(g)))

\* player.update(deltaTime) for each registry entry up to the one whose update
\* throws: updateAllPlayers has no try/catch, the exception leaves the loop
RECURSIVE updateEachUntil(_, _, _)
updateEachUntil(g, ids, bad) ==
  IF ids = <<>>
    THEN g
    ELSE LET id == Head(ids)
         IN  IF id = bad
               THEN [g EXCEPT !.threw = TRUE, !.log = Append(@, <<"throw", id>>)]
               ELSE updateEachUntil(
                      [g EXCEPT !.players[id] = update(@),
                                !.log = Append(@, <<"update", id, g.players[id].input,
                                                    updatePath(g.players[id])>>)],
                      Tail(ids), bad)

\* gameLoop when the update of the participant bad throws: gameLoop has no
\* try/catch either, so the broadcast is not reached
gameLoopThrowing(g, bad) ==
  LET updated == updateEachUntil(step(g), g.order, bad)
  IN  IF updated.threw THEN updated ELSE broadcastGameState(updated)

addPlayer(g, playerId) ==
  LET made == createPhysicsBody(g, playerId)
  IN  [made.g EXCEPT
         !.players = [k \in DOMAIN g.players \cup {playerId} |->
                        IF k = playerId THEN made.player ELSE g.players[k]],
         !.order = IF playerId \in DOMAIN g.players THEN @ ELSE Append(@, playerId)]

Without(ids, id) == SelectSeq(ids, LAMBDA x : x # id)

\* variant of removePlayer: the body is not released
removePlayerNoDestroy(g, playerId) ==
  IF playerId \in DOMAIN g.players
    THEN [g EXCEPT !.players = [k \in DOMAIN g.players \ {playerId} |-> g.players[k]],
                   !.order = Without(@, playerId)]
    ELSE g

\* variant of removePlayer: the registry entry is kept
removePlayerNoDelete(g, playerId) ==
  IF playerId \in DOMAIN g.players THEN destroy(g, g.players[playerId]) ELSE g

\* variant of removePlayer: the entry is used without looking whether the
\* registry has one
removePlayerUnguarded(g, playerId) ==
  IF playerId \in DOMAIN g.players
    THEN LET d == destroy(g, g.players[playerId])
         IN  [d EXCEPT !.players = [k \in DOMAIN g.players \ {playerId} |-> g.players[k]],
                       !.order = Without(@, playerId)]
    ELSE [g EXCEPT !.threw = TRUE]

removePlayer(g, playerId) ==
  IF playerId \in DOMAIN g.players
    THEN LET d == destroy(g, g.players[playerId])
         IN  [d EXCEPT !.players = [k \in DOMAIN g.players \ {playerId} |-> g.players[k]],
                       !.order = Without(@, playerId)]
    ELSE g

RECURSIVE destroyEach(_, _)
destroyEach(g, ids) ==
  IF ids = <<>> THEN g ELSE destroyEach(destroy(g, g.players[Head(ids)]), Tail(ids))

\* variant of shutdown: the registry is cleared without destroying the participants
shutdownNoDestroy(g) ==
  [stopGameLoop(g) EXCEPT !.players = EmptyMap, !.order = <<>>]

shutdown(g) ==
  [destroyEach(stopGameLoop(g), g.order) EXCEPT !.players = EmptyMap, !.order = <<>>]

-----------------------------------------------------------------------------
(* The messages a client may send as playerInput *)

InputMessages ==
  { JSUndefined, JSStr("left"),
    JSObj(EmptyMap),
    JSObj([left |-> JSBool(TRUE)]),
    JSObj([left |-> JSNum(0), jump |-> JSStr("yes"), speed |-> JSNum(9)]),
    JSObj([jump |-> JSBool(FALSE)]) }

(* History *)

Event(op, id, ret, rec, g) ==
  [op |-> op, id |-> id, ret |-> ret, valid |-> ToBoolean(rec),
   log |-> g.log, released |-> g.released, threw |-> g.threw]

NoCall == [fn |-> "none", arg |-> JSUndefined, done |-> FALSE, ret |-> JSUndefined]

Restrict(f, S) == [k \in DOMAIN f \cap S |-> f[k]]

-----------------------------------------------------------------------------
\* after startServer has run initialize() and the GameManager constructor
InitServer ==
  \E fault \in InitFaults :
    LET r == initialize(fault)
    IN  /\ isEnabled = r.isEnabled
        /\ hasWorld = r.hasWorld
        /\ worldBodies = r.bodies
        /\ players = EmptyMap
        /\ playerOrder = <<>>
        /\ gameLoopInterval = NoTimer
        /\ timers = {}
        /\ lastInputTime = EmptyMap
        /\ now = StartTime
        /\ connected = {}
        /\ lastApplied = EmptyMap
        /\ lastSet = EmptyMap
        /\ ev = Event("init", "", r.ret, JSUndefined, Game)

\* the registry model does not follow positions and velocities
NoPlayer == [input |-> NoInput]

Init == InitServer /\ call = NoCall /\ thePlayer = NoPlayer

\* the GameManager's part of the next state, and the history of the registry
SetGame(g) ==
  /\ players' = g.players
  /\ playerOrder' = g.order
  /\ worldBodies' = g.world
  /\ gameLoopInterval' = g.interval
  /\ timers' = g.timers

KeepHistory(g) ==
  /\ lastApplied' = Restrict(lastApplied, DOMAIN g.players)
  /\ lastSet' = Restrict(lastSet, DOMAIN g.players)

\* Handlers run one at a time, each to completion.  An exception that leaves a
\* handler uncaught ends the process (index.js installs no handler for it), so
\* no handler runs after ev.threw.

\* variant of Connect: playerJoined is emitted to every socket
ConnectJoinedToAll(c) ==
  /\ ~ev.threw
  /\ c \notin connected
  /\ isEnabled => FreeBodies(Game) # {}
  /\ LET g == addPlayer(Game, c)
         sent == [g EXCEPT !.log = @ \o << <<"gameState", c, g.order, {c}>>,
                                           <<"playerJoined", c, connected \cup {c}>> >>]
     IN  /\ SetGame(sent)
         /\ ev' = Event("connect", c, FALSE, JSUndefined, sent)
         /\ lastSet' = [k \in DOMAIN g.players |->
                          IF k = c THEN NoInput ELSE lastSet[k]]
         /\ lastApplied' = Restrict(lastApplied, DOMAIN g.players \ {c})
  /\ connected' = connected \cup {c}
  /\ UNCHANGED <<thePlayer, isEnabled, hasWorld, lastInputTime, now, call>>

\* io.on('connection'): addPlayer, gameState to the socket, playerJoined to the
\* others; the log entry of an emit ends with the sockets it goes to
Connect(c) ==
  /\ ~ev.threw
  /\ c \notin connected
  /\ isEnabled => FreeBodies(Game) # {}
  /\ LET g == addPlayer(Game, c)
         sent == [g EXCEPT !.log = @ \o << <<"gameState", c, g.order, {c}>>,
                                           <<"playerJoined", c, connected \ {c}>> >>]
     IN  /\ SetGame(sent)
         /\ ev' = Event("connect", c, FALSE, JSUndefined, sent)
         /\ lastSet' = [k \in DOMAIN g.players |->
                          IF k = c THEN NoInput ELSE lastSet[k]]
         /\ lastApplied' = Restrict(lastApplied, DOMAIN g.players \ {c})
  /\ connected' = connected \cup {c}
  /\ UNCHANGED <<thePlayer, isEnabled, hasWorld, lastInputTime, now, call>>

\* socket.on('playerInput'); the handler may still be called for a socket
\* that has been closed
PlayerInput(c, inputData) ==
  /\ ~ev.threw
  /\ IF c \in DOMAIN players
       THEN LET r == processInput(lastInputTime, c, inputData, players[c], now)
                rec == validateInput(inputData)
            IN  /\ players' = [players EXCEPT ![c] = r.player]
                /\ lastInputTime' = r.lastInputTime
                /\ ev' = Event("input", c, r.ret, rec, Game)
                /\ lastApplied' = IF r.player.input # players[c].input \/ r.ret
                     THEN [k \in DOMAIN lastApplied \cup {c} |->
                             IF k = c THEN now ELSE lastApplied[k]]
                     ELSE lastApplied
                /\ lastSet' = IF r.player.input # players[c].input \/ r.ret
                     THEN [lastSet EXCEPT ![c] =
                             [k \in DOMAIN @ |-> IF rec.t = "object" /\ k \in DOMAIN rec.props
                                                   THEN rec.props[k] ELSE @[k]]]
                     ELSE lastSet
       ELSE /\ ev' = Event("inputNoPlayer", c, FALSE, JSUndefined, Game)
            /\ UNCHANGED <<players, lastInputTime, lastApplied, lastSet>>
  /\ UNCHANGED <<thePlayer, isEnabled, hasWorld, worldBodies, playerOrder, gameLoopInterval, timers, now,
                 connected, call>>

\* variant of Disconnect: playerLeft is emitted before the removal
DisconnectEmitFirst(c) ==
  /\ ~ev.threw
  /\ c \in connected
  /\ LET g == removePlayer(Game, c)
         sent == [g EXCEPT !.log = Append(@, <<"playerLeft", c, playerOrder>>)]
     IN  /\ SetGame(sent)
         /\ KeepHistory(sent)
         /\ ev' = Event("disconnect", c, c \in DOMAIN lastInputTime, JSUndefined, sent)
  /\ lastInputTime' = cleanupPlayer(lastInputTime, c)
  /\ connected' = connected \ {c}
  /\ UNCHANGED <<thePlayer, isEnabled, hasWorld, now, call>>

\* socket.on('disconnect'): removePlayer, cleanupPlayer, playerLeft to everyone;
\* the log entry of an emit carries the registry keys at the time of the emit;
\* the event records whether cleanupPlayer found an entry to delete
Disconnect(c) ==
  /\ ~ev.threw
  /\ c \in connected
  /\ LET g == removePlayer(Game, c)
         sent == [g EXCEPT !.log = Append(@, <<"playerLeft", c, g.order>>)]
     IN  /\ SetGame(sent)
         /\ KeepHistory(sent)
         /\ ev' = Event("disconnect", c, c \in DOMAIN lastInputTime, JSUndefined, sent)
  /\ lastInputTime' = cleanupPlayer(lastInputTime, c)
  /\ connected' = connected \ {c}
  /\ UNCHANGED <<thePlayer, isEnabled, hasWorld, now, call>>

\* socket.on('ping'): the timestamp is echoed as pong
Ping(c) ==
  /\ ~ev.threw
  /\ c \in connected
  /\ ev' = Event("ping", c, FALSE, JSUndefined, [Game EXCEPT !.log = << <<"pong", c>> >>])
  /\ UNCHANGED <<thePlayer, isEnabled, hasWorld, worldBodies, players, playerOrder, gameLoopInterval, timers,
                 lastInputTime, now, connected, lastApplied, lastSet, call>>

\* the callback of an active interval timer
Tick(t) ==
  /\ ~ev.threw
  /\ t \in timers
  /\ LET g == gameLoop(Game)
     IN  /\ SetGame(g)
         /\ KeepHistory(g)
         /\ ev' = Event("tick", "", FALSE, JSUndefined, g)
  /\ UNCHANGED <<thePlayer, isEnabled, hasWorld, lastInputTime, now, connected, call>>

StartGameLoop ==
  /\ ~ev.threw
  /\ FreeTimers(Game) # {}
  /\ LET g == startGameLoop(Game)
     IN  /\ SetGame(g)
         /\ KeepHistory(g)
         /\ ev' = Event("start", "", FALSE, JSUndefined, g)
  /\ UNCHANGED <<thePlayer, isEnabled, hasWorld, lastInputTime, now, connected, call>>

StopGameLoop ==
  /\ ~ev.threw
  /\ LET g == stopGameLoop(Game)
     IN  /\ SetGame(g)
         /\ KeepHistory(g)
         /\ ev' = Event("stop", "", FALSE, JSUndefined, g)
  /\ UNCHANGED <<thePlayer, isEnabled, hasWorld, lastInputTime, now, connected, call>>

\* gracefulShutdown: gameManager.shutdown()
Shutdown ==
  /\ ~ev.threw
  /\ LET g == shutdown(Game)
     IN  /\ SetGame(g)
         /\ KeepHistory(g)
         /\ ev' = Event("shutdown", "", FALSE, JSUndefined, g)
  /\ UNCHANGED <<thePlayer, isEnabled, hasWorld, lastInputTime, now, connected, call>>

\* GameManager.removePlayer called directly, for any identifier
RemovePlayer(c) ==
  /\ ~ev.threw
  /\ LET g == removePlayer(Game, c)
     IN  /\ SetGame(g)
         /\ KeepHistory(g)
         /\ ev' = Event("removePlayer", c, FALSE, JSUndefined, g)
  /\ UNCHANGED <<thePlayer, isEnabled, hasWorld, lastInputTime, now, connected, call>>

\* wall-clock time passes between two handlers
AdvanceClock ==
  /\ ~ev.threw
  /\ now + TimeStep <= MaxTime
  /\ now' = now + TimeStep
  /\ ev' = Event("clock", "", FALSE, JSUndefined, Game)
  /\ UNCHANGED <<thePlayer, isEnabled, hasWorld, worldBodies, players, playerOrder, gameLoopInterval, timers,
                 lastInputTime, connected, lastApplied, lastSet, call>>

Next ==
  \/ \E c \in SocketIds : Connect(c)
  \/ \E c \in SocketIds, inputData \in InputMessages : PlayerInput(c, inputData)
  \/ \E c \in SocketIds : Disconnect(c)
  \/ \E c \in SocketIds : Ping(c)
  \/ \E t \in TimerIds : Tick(t)
  \/ StartGameLoop
  \/ StopGameLoop
  \/ Shutdown
  \/ \E c \in SocketIds : RemovePlayer(c)
  \/ AdvanceClock

Spec == Init /\ [][Next]_vars

-----------------------------------------------------------------------------
(* InputHandler.validateInput as a function of its argument: one call per   *)
(* behaviour, on any of the values below                                    *)

PropKeys == Range(validInputs) \cup {"speed"}

PropValues == {JSBool(TRUE), JSNum(0), JSStr("false")}

RawInputs ==
  { JSUndefined, JSNull, JSBool(TRUE), JSBool(FALSE), JSNum(0), JSNum(5),
    JSStr(""), JSStr("left") }
  \cup {JSObj(f) : f \in UNION {[S -> PropValues] : S \in SUBSET PropKeys}}
  \cup {JSObj([left |-> v]) :
          v \in {JSBool(FALSE), JSNum(1), JSStr(""), JSNull, JSUndefined,
                 JSObj(EmptyMap)}}
  \cup {JSObj([length |-> JSNum(0)])}

InitValidate ==
  /\ InitServer
  /\ thePlayer = NoPlayer
  /\ \E inputData \in RawInputs :
       call = [fn |-> "validateInput", arg |-> inputData, done |-> FALSE,
               ret |-> JSUndefined]

ValidateCall ==
  /\ call.fn = "validateInput"
  /\ ~call.done
  /\ call' = [call EXCEPT !.done = TRUE, !.ret = validateInput(call.arg)]
  /\ UNCHANGED <<thePlayer, isEnabled, hasWorld, worldBodies, players, playerOrder, gameLoopInterval,
                 timers, lastInputTime, now, connected, lastApplied, lastSet, ev>>

NextValidate == ValidateCall

SpecValidate == InitValidate /\ [][NextValidate]_vars

-----------------------------------------------------------------------------
(* Properties *)

-----------------------------------------------------------------------------
(* The PhysicsWorld on its own: any sequence of step, addBody, removeBody   *)
(* and getDebugData calls on the world initialize() has left.  The number   *)
(* of steps the solver has made (World.stepnumber) is kept in the call      *)
(* record next to the last call and its result.                             *)

MaxSteps == 2

\* variant of worldStep: the solver is stepped whenever a world exists
worldStepNoFlagCheck(stepnumber) ==
  IF hasWorld THEN stepnumber + 1 ELSE stepnumber

\* PhysicsWorld.step
worldStep(stepnumber) ==
  IF hasWorld /\ isEnabled THEN stepnumber + 1 ELSE stepnumber

RECURSIVE SortedSeq(_)
SortedSeq(S) == IF S = {} THEN <<>> ELSE <<Min(S)>> \o SortedSeq(S \ {Min(S)})

\* PhysicsWorld.getDebugData: one entry per body of the world
getDebugData(world) ==
  IF ~hasWorld \/ ~isEnabled THEN <<>> ELSE SortedSeq(world)

PhysicsCall(fn, arg, ret, stepnumber) ==
  [fn |-> fn, arg |-> arg, done |-> TRUE, ret |-> ret, stepnumber |-> stepnumber]

InitPhysics ==
  /\ InitServer
  /\ thePlayer = NoPlayer
  /\ call = [fn |-> "none", arg |-> NoBody, done |-> FALSE, ret |-> JSUndefined,
             stepnumber |-> 0]

CallStep ==
  /\ call.stepnumber < MaxSteps
  /\ call' = PhysicsCall("step", NoBody, JSUndefined, worldStep(call.stepnumber))
  /\ UNCHANGED <<thePlayer, isEnabled, hasWorld, worldBodies, players, playerOrder, gameLoopInterval,
                 timers, lastInputTime, now, connected, lastApplied, lastSet, ev>>

CallAddBody(body) ==
  /\ worldBodies' = addBody(worldBodies, body)
  /\ call' = PhysicsCall("addBody", body, JSUndefined, call.stepnumber)
  /\ UNCHANGED <<thePlayer, isEnabled, hasWorld, players, playerOrder, gameLoopInterval,
                 timers, lastInputTime, now, connected, lastApplied, lastSet, ev>>

CallRemoveBody(body) ==
  /\ worldBodies' = removeBody(worldBodies, body)
  /\ call' = PhysicsCall("removeBody", body, JSUndefined, call.stepnumber)
  /\ UNCHANGED <<thePlayer, isEnabled, hasWorld, players, playerOrder, gameLoopInterval,
                 timers, lastInputTime, now, connected, lastApplied, lastSet, ev>>

CallGetDebugData ==
  /\ call' = PhysicsCall("getDebugData", NoBody, getDebugData(worldBodies), call.stepnumber)
  /\ UNCHANGED <<thePlayer, isEnabled, hasWorld, worldBodies, players, playerOrder, gameLoopInterval,
                 timers, lastInputTime, now, connected, lastApplied, lastSet, ev>>

NextPhysics ==
  \/ CallStep
  \/ \E body \in BodyIds \cup {Ground} : CallAddBody(body)
  \/ \E body \in BodyIds \cup {Ground} : CallRemoveBody(body)
  \/ CallGetDebugData

SpecPhysics == InitPhysics /\ [][NextPhysics]_vars

-----------------------------------------------------------------------------
(* One Player with a rigid body in an enabled world, followed through the   *)
(* ticks: the solver step leaves the body somewhere, then Player.update     *)
(* runs on it.  Lengths and speeds are in tenths of a unit (per second),    *)
(* ray distances in hundredths, elapsed time in microseconds.               *)

SPEED == 24000
MAX_HORIZONTAL_SPEED == 27000
ACCELERATION == 2850
JUMP_FORCE == 13
GroundDistance == 101
Boundary == 480
Floor == -100
RespawnHeight == 50
MsThreshold == 100000

Vec3(x, y, z) == [x |-> x, y |-> y, z |-> z]

Abs(n) == IF n < 0 THEN -n ELSE n

Min2(a, b) == IF a <= b THEN a ELSE b

\* the integer part of a / b, as a float division followed by truncation
Trunc(a, b) == IF a >= 0 THEN a \div b ELSE -((-a) \div b)

RECURSIVE IsqrtBetween(_, _, _)
IsqrtBetween(n, lo, hi) ==
  IF lo >= hi
    THEN lo
    ELSE LET mid == (lo + hi + 1) \div 2
         IN  IF mid * mid <= n THEN IsqrtBetween(n, mid, hi)
                               ELSE IsqrtBetween(n, lo, mid - 1)

\* Math.hypot(a, b), rounded down
Hypot(a, b) ==
  IF a = 0 THEN Abs(b)
  ELSE IF b = 0 THEN Abs(a)
  ELSE IsqrtBetween(a * a + b * b, 0, 46340)

\* variant of checkGroundContact: any hit of the ray counts as ground
checkGroundContactAnyHit(p, ray) ==
  [p EXCEPT !.onGround = ray.hasHit]

\* Player.checkGroundContact: ray is the RaycastResult of world.raycastClosest
checkGroundContact(p, ray) ==
  [p EXCEPT !.onGround = ray.hasHit /\ ray.distance < GroundDistance]

\* the horizontal target velocity of applyMovementForces
targetVelocity(input) ==
  LET tx == (IF input.right THEN SPEED ELSE 0) - (IF input.left THEN SPEED ELSE 0)
      tz == (IF input.backward THEN SPEED ELSE 0) - (IF input.forward THEN SPEED ELSE 0)
      hLen == Hypot(tx, tz)
  IN  IF hLen > SPEED
        THEN [x |-> Trunc(tx * SPEED, hLen), z |-> Trunc(tz * SPEED, hLen)]
        ELSE [x |-> tx, z |-> tz]

\* vel.x and vel.z scaled down to the horizontal speed limit
clampHorizontal(vel, limit) ==
  LET hv == Hypot(vel.x, vel.z)
  IN  IF hv > limit
        THEN [vel EXCEPT !.x = Trunc(@ * limit, hv), !.z = Trunc(@ * limit, hv)]
        ELSE vel

\* applyMovementForces: on the ground the horizontal velocity is driven to
\* the target and a jump sets the vertical velocity; in the air only a force
\* is applied (the solver consumes it) and the horizontal velocity is clamped
applyMovementForces(p, dt) ==
  LET target == targetVelocity(p.input)
      vel == p.body.velocity
  IN  IF p.onGround
        THEN LET lerp == Min2(1000, (ACCELERATION * dt) \div 1000)
                 driven == [vel EXCEPT
                              !.x = @ + Trunc((target.x - @) * lerp, 1000),
                              !.z = @ + Trunc((target.z - @) * lerp, 1000)]
                 clamped == clampHorizontal(driven, MAX_HORIZONTAL_SPEED)
             IN  IF p.input.jump /\ p.onGround
                   THEN [p EXCEPT !.body.velocity = [clamped EXCEPT !.y = JUMP_FORCE],
                                  !.onGround = FALSE]
                   ELSE [p EXCEPT !.body.velocity = clamped]
        ELSE [p EXCEPT !.body.velocity =
                clampHorizontal(vel, (MAX_HORIZONTAL_SPEED * 14) \div 10)]

OutOfBounds(position) ==
  \/ Abs(position.x) > Boundary
  \/ Abs(position.z) > Boundary
  \/ position.y < Floor

\* variant of applyBoundaryConstraints: the spin of the body is kept
applyBoundaryConstraintsKeepSpin(p) ==
  IF OutOfBounds(p.body.position)
    THEN [p EXCEPT !.body.position = Vec3(0, RespawnHeight, 0),
                   !.body.velocity = Vec3(0, 0, 0)]
    ELSE p

applyBoundaryConstraints(p) ==
  IF OutOfBounds(p.body.position)
    THEN [p EXCEPT !.body = [position |-> Vec3(0, RespawnHeight, 0),
                             velocity |-> Vec3(0, 0, 0),
                             angularVelocity |-> Vec3(0, 0, 0)]]
    ELSE p

\* update, first lines: an elapsed time above 0.1 is taken as milliseconds
normalizeDelta(deltaTime) ==
  IF deltaTime > MsThreshold THEN deltaTime \div 1000 ELSE deltaTime

\* the physics-backed path of update up to the boundary step: the stored
\* position and velocity are read back, the ground is checked, the movement
\* is applied and the spin about x and z is stopped; the air-control and
\* floatiness forces are handed to the solver and are not part of this state
moveBody(p, ray, deltaTime) ==
  LET synced == [p EXCEPT !.position = p.body.position, !.velocity = p.body.velocity]
      moved == applyMovementForces(checkGroundContact(synced, ray), normalizeDelta(deltaTime))
  IN  [moved EXCEPT !.body.angularVelocity = [@ EXCEPT !.x = 0, !.z = 0]]

\* Player.update for a participant with a body in an enabled world
updatePhysics(p, ray, deltaTime) ==
  applyBoundaryConstraints(moveBody(p, ray, deltaTime))

SpawnHeight == 20

\* Math.random() * 10 - 5, in tenths
SpawnOffsets == {-50, 0, 49}

\* what world.raycastClosest may report for the ray below the body
RayResults ==
  { [hasHit |-> FALSE, distance |-> -1],
    [hasHit |-> TRUE, distance |-> 90],
    [hasHit |-> TRUE, distance |-> 100],
    [hasHit |-> TRUE, distance |-> 101] }

\* where the solver step may leave the body: at rest, on and beyond each
\* bound, in the air; still, falling or fast; spinning or not
SolverBodies ==
  [position : {Vec3(0, 4, 0), Vec3(480, 4, 0), Vec3(481, 4, 0), Vec3(0, 4, -481),
               Vec3(0, -100, 0), Vec3(0, -101, 0), Vec3(10, 30, -20)},
   velocity : {Vec3(0, -20, 0)},
   angularVelocity : {Vec3(1, 2, 3)}]
  \cup
  [position : {Vec3(0, 4, 0)},
   velocity : {Vec3(0, 0, 0), Vec3(0, -20, 0), Vec3(40000, 5, 0)},
   angularVelocity : {Vec3(0, 0, 0), Vec3(1, 2, 3)}]

\* the elapsed time gameLoop passes: 16 ms and 101 ms
TickDeltas == {16000, 101000}

\* accepted input records: one key each
PlayerInputs ==
  {JSObj(k :> v) : k \in {"jump", "left", "forward"}, v \in BOOLEAN}

\* new Player(id, physicsWorld, spawnX, 2, spawnZ) in an enabled world
newPlayer(x, y, z) ==
  [input |-> NoInput, onGround |-> FALSE,
   body |-> [position |-> Vec3(x, y, z), velocity |-> Vec3(0, 0, 0),
             angularVelocity |-> Vec3(0, 0, 0)],
   position |-> Vec3(x, y, z), velocity |-> Vec3(0, 0, 0)]

\* history of the followed Player: what its last update found and did, the
\* body as the solver left it and as it reached the boundary step, and
\* whether, since the vertical velocity was last set by a jump with the jump
\* intent held ever since, an update has found the Player in the air
PlayerEvent(op, grounded, jumped, sinceJump, retrigger, solved, atBoundary) ==
  [op |-> op, grounded |-> grounded, jumped |-> jumped, sinceJump |-> sinceJump,
   retrigger |-> retrigger, solved |-> solved, atBoundary |-> atBoundary]

InitPlayer ==
  /\ isEnabled = TRUE
  /\ hasWorld = TRUE
  /\ worldBodies = {Ground, 1}
  /\ players = EmptyMap
  /\ playerOrder = <<>>
  /\ gameLoopInterval = NoTimer
  /\ timers = {}
  /\ lastInputTime = EmptyMap
  /\ now = StartTime
  /\ connected = {}
  /\ lastApplied = EmptyMap
  /\ lastSet = EmptyMap
  /\ call = NoCall
  /\ \E x \in SpawnOffsets, z \in SpawnOffsets : thePlayer = newPlayer(x, SpawnHeight, z)
  /\ ev = PlayerEvent("init", FALSE, FALSE, "none", FALSE, thePlayer.body, thePlayer.body)

\* one tick as the followed Player sees it: the solver step, then update
PlayerTick(solved, ray, deltaTime) ==
  LET stepped == [thePlayer EXCEPT !.body = solved]
      grounded == checkGroundContact(stepped, ray).onGround
  IN  \E pre \in {moveBody(stepped, ray, deltaTime)} :
      LET jumped == grounded /\ ~pre.onGround IN
      /\ thePlayer' = updatePhysics(stepped, ray, deltaTime)
      /\ ev' = PlayerEvent("tick", grounded, jumped,
                 IF jumped THEN "jumped"
                 ELSE IF ~thePlayer.input.jump THEN "none"
                 ELSE IF ~grounded /\ ev.sinceJump = "jumped" THEN "airborne"
                 ELSE ev.sinceJump,
                 jumped /\ ev.sinceJump = "jumped", solved, pre.body)
      /\ UNCHANGED <<isEnabled, hasWorld, worldBodies, players, playerOrder,
                     gameLoopInterval, timers, lastInputTime, now, connected,
                     lastApplied, lastSet, call>>

\* an accepted playerInput of the followed Player
PlayerSetInput(inputData) ==
  /\ thePlayer' = updateInput(thePlayer, inputData)
  /\ ev' = PlayerEvent("input", FALSE, FALSE,
             IF thePlayer'.input.jump THEN ev.sinceJump ELSE "none",
             FALSE, thePlayer.body, thePlayer.body)
  /\ UNCHANGED <<isEnabled, hasWorld, worldBodies, players, playerOrder,
                 gameLoopInterval, timers, lastInputTime, now, connected,
                 lastApplied, lastSet, call>>

NextPlayer ==
  \/ \E solved \in SolverBodies, ray \in RayResults, deltaTime \in TickDeltas :
       PlayerTick(solved, ray, deltaTime)
  \/ \E inputData \in PlayerInputs : PlayerSetInput(inputData)

SpecPlayer == InitPlayer /\ [][NextPlayer]_vars

Registered == DOMAIN players

LogIndexes(kind) == {i \in 1..Len(ev.log) : ev.log[i][1] = kind}

\* C1: in every tick the physics world is stepped exactly once and before any
\* participant's update, every registered participant is updated exactly once,
\* and the broadcast comes only after all of those updates.
C1_TickOrder ==
  ev.op = "tick" =>
    /\ Cardinality(LogIndexes("step")) = 1
    /\ \A i \in LogIndexes("step"), j \in LogIndexes("update") : i < j
    /\ \A p \in Registered :
         Cardinality({j \in LogIndexes("update") : ev.log[j][2] = p}) = 1
    /\ \A j \in LogIndexes("update") : ev.log[j][2] \in Registered
    /\ \A j \in LogIndexes("update"), b \in LogIndexes("gameUpdate") : j < b
    /\ \A i \in LogIndexes("step"), b \in LogIndexes("gameUpdate") : i < b

C1_Witness ==
  /\ ev.op = "tick"
  /\ Cardinality(Registered) = 2
  /\ LogIndexes("gameUpdate") # {}

\* C2: a valid input that arrives less than INPUT_RATE_LIMIT ms after the
\* connection's last applied input is dropped (processInput returns false, the
\* participant and the rate-limit bookkeeping stay as they were, so nothing of
\* the record is kept for later); one that arrives more than INPUT_RATE_LIMIT
\* ms after it is applied; two applied inputs are at least INPUT_RATE_LIMIT
\* ms apart.
C2_RateLimit ==
  [][\A c \in SocketIds :
       (ev'.op = "input" /\ ev'.id = c /\ ev'.valid /\ c \in DOMAIN lastApplied) =>
         /\ now - lastApplied[c] < INPUT_RATE_LIMIT =>
              /\ ~ev'.ret
              /\ UNCHANGED <<players, lastInputTime, lastApplied>>
         /\ now - lastApplied[c] > INPUT_RATE_LIMIT =>
              /\ ev'.ret
              /\ lastApplied'[c] = now
         /\ ev'.ret => now - lastApplied[c] >= INPUT_RATE_LIMIT]_vars

C2_Witness ==
  /\ ev.op = "input"
  /\ ev.valid
  /\ ~ev.ret
  /\ ev.id \in DOMAIN lastApplied
  /\ now - lastApplied[ev.id] < INPUT_RATE_LIMIT

\* C3: when processInput returns false nothing changes: the participants and
\* the rate-limit bookkeeping are as before the call; and a valid input that
\* directly follows a malformed one of the same connection is accepted
\* whenever the window since the last applied input has passed.
C3_RejectionNoEffect ==
  [][/\ (ev'.op = "input" /\ ~ev'.ret) =>
          UNCHANGED <<players, playerOrder, lastInputTime, worldBodies>>
     /\ \A c \in SocketIds :
          ( /\ ev.op = "input" /\ ev.id = c /\ ~ev.valid
            /\ ev'.op = "input" /\ ev'.id = c /\ ev'.valid
            /\ \/ c \notin DOMAIN lastApplied
               \/ now - lastApplied[c] >= INPUT_RATE_LIMIT )
          => ev'.ret]_vars

C3_Witness ==
  /\ ev.op = "input"
  /\ ~ev.valid
  /\ ~ev.ret
  /\ ev.id \in Registered
  /\ ev.id \notin DOMAIN lastInputTime

\* the values that JavaScript's boolean coercion maps to false
Falsy == {JSUndefined, JSNull, JSBool(FALSE), JSNum(0), JSStr("")}

\* C4: validateInput returns null exactly when its argument is not a structured
\* record (missing, null or a value that is no object); for a structured record
\* it returns a record whose keys are the argument's keys among the five input
\* keys, each with the boolean coercion of the argument's value.
C4_ValidateInput ==
  (call.fn = "validateInput" /\ call.done) =>
    LET inputData == call.arg
        ret == call.ret
    IN  /\ (ret = JSNull) <=> (inputData.t # "object")
        /\ inputData.t = "object" =>
             /\ ret.t = "object"
             /\ DOMAIN ret.props =
                  DOMAIN inputData.props \cap {"left", "right", "forward", "backward", "jump"}
             /\ \A k \in DOMAIN ret.props :
                  ret.props[k] = (inputData.props[k] \notin Falsy)

C4_Witness ==
  /\ call.fn = "validateInput"
  /\ call.done
  /\ call.arg.t = "object"
  /\ DOMAIN call.arg.props = {"left", "jump", "speed"}
  /\ call.arg.props["left"] = JSStr("false")
  /\ call.arg.props["jump"] = JSNum(0)
  /\ call.ret = JSObj([left |-> TRUE, jump |-> FALSE])

\* C5: updateInput sets the keys present in the record to the record's values
\* and leaves the absent keys as they were; after any sequence of applied
\* records each key holds the value of the most recent record that contained
\* it, or false if none did.
C5_PartialUpdate ==
  /\ [](\A c \in Registered : players[c].input = lastSet[c])
  /\ [][\A c \in SocketIds, inputData \in InputMessages :
          (ev'.op = "input" /\ ev'.ret /\ ev'.id = c /\ PlayerInput(c, inputData)) =>
            LET record == validateInput(inputData).props
            IN  \A k \in Range(validInputs) :
                  players'[c].input[k] =
                    IF k \in DOMAIN record THEN record[k] ELSE players[c].input[k]]_vars

C5_Witness ==
  /\ ev.op = "input"
  /\ ev.ret
  /\ players[ev.id].input["left"]
  /\ players[ev.id].input["jump"]

\* C6: a participant's input record changes only in the handler of an input of
\* its own connection that is accepted; ticks, rejected inputs, pings and the
\* events of other connections leave it unchanged.
C6_InputFrame ==
  [][\A c \in Registered \cap DOMAIN players' :
       players'[c].input # players[c].input =>
         (ev'.op = "input" /\ ev'.id = c /\ ev'.ret)]_vars

C6_Witness ==
  /\ ev.op = "tick"
  /\ \E c \in Registered : players[c].input["jump"] /\ players[c].input["left"]

\* C7: with physics enabled, whenever a handler or tick starts, the bodies in
\* the world besides the ground are exactly the bodies of the registered
\* participants, one body per participant.
C7_BodiesConsistent ==
  isEnabled =>
    /\ \A c \in Registered : players[c].body \in worldBodies \ {Ground}
    /\ \A c, d \in Registered : players[c].body = players[d].body => c = d
    /\ worldBodies = {Ground} \cup {players[c].body : c \in Registered}

C7_Witness ==
  /\ isEnabled
  /\ ev.op = "disconnect"
  /\ Len(ev.released) = 1
  /\ Cardinality(Registered) = 1
  /\ Cardinality(worldBodies) = 2

\* C8: a removal (removePlayer, or a disconnect) for an identifier that is not
\* registered, because it was removed before or shutdown destroyed it, raises no
\* error, leaves the registry and the world as they were and releases no body;
\* the removal of a registered participant releases its body once; and no
\* handler releases a body that is not in the world or releases one twice.
C8_RemoveIdempotent ==
  [][/\ \A c \in SocketIds :
          (ev'.op \in {"disconnect", "removePlayer"} /\ ev'.id = c) =>
            /\ ~ev'.threw
            /\ c \notin DOMAIN players'
            /\ IF c \in Registered
                 THEN ev'.released =
                        IF players[c].body # NoBody THEN <<players[c].body>> ELSE <<>>
                 ELSE /\ ev'.released = <<>>
                      /\ UNCHANGED <<players, playerOrder, worldBodies>>
     /\ \A i \in 1..Len(ev'.released) :
          /\ ev'.released[i] \in worldBodies
          /\ \A j \in 1..Len(ev'.released) : ev'.released[i] = ev'.released[j] => i = j]_vars

C8_Witness ==
  /\ isEnabled
  /\ ev.op = "disconnect"
  /\ ev.released = <<>>
  /\ connected = {}
  /\ Registered = {}
  /\ worldBodies = {Ground}

\* C9: when shutdown returns the tick timer is cancelled, the registry is empty
\* and every body of a participant that was registered at the call has been
\* removed from the world, which then holds no participant body.
C9_Shutdown ==
  /\ [](ev.op = "shutdown" =>
          /\ timers = {}
          /\ gameLoopInterval = NoTimer
          /\ players = EmptyMap
          /\ playerOrder = <<>>
          /\ worldBodies \subseteq {Ground})
  /\ [][ev'.op = "shutdown" =>
          /\ OwnedBodies(Game) \cap worldBodies' = {}
          /\ Range(ev'.released) = OwnedBodies(Game)]_vars

C9_Witness ==
  /\ ev.op = "shutdown"
  /\ isEnabled
  /\ Len(ev.released) = 2
  /\ connected = SocketIds

\* C10: startGameLoop while the loop runs changes nothing, and after any
\* sequence of startGameLoop, stopGameLoop and shutdown at most one tick timer
\* is active: the one gameLoopInterval holds.
C10_OneTimer ==
  /\ [](/\ Cardinality(timers) <= 1
        /\ timers = IF gameLoopInterval = NoTimer THEN {} ELSE {gameLoopInterval})
  /\ [][(ev'.op = "start" /\ gameLoopInterval # NoTimer) =>
          UNCHANGED <<gameLoopInterval, timers, players, playerOrder, worldBodies,
                      lastInputTime>>]_vars

C10_Witness ==
  /\ ev.op = "start"
  /\ ev.log = << <<"warn">> >>
  /\ Cardinality(timers) = 1

\* C11: once stopGameLoop or shutdown has returned, the interval field is
\* empty and no timer is left armed; a tick runs only while the field holds
\* an armed timer, the field is filled again by startGameLoop alone, and a
\* tick itself neither stops the loop nor is cut short (its log is whole:
\* the step, one update per participant, then the broadcast if any)
C11_NoTickAfterStop ==
  /\ [](ev.op \in {"stop", "shutdown"} => gameLoopInterval = NoTimer /\ timers = {})
  /\ [](gameLoopInterval = NoTimer => timers = {})
  /\ [][ev'.op = "tick" =>
          /\ gameLoopInterval # NoTimer /\ gameLoopInterval \in timers
          /\ gameLoopInterval' = gameLoopInterval /\ timers' = timers
          /\ Len(ev'.log) >= 1 + Len(playerOrder)
          /\ ev'.log[1] = <<"step">>]_vars
  /\ [][gameLoopInterval = NoTimer /\ gameLoopInterval' # NoTimer =>
          ev'.op = "start"]_vars

\* a running loop was stopped while participants were registered
C11_Witness ==
  /\ ev.op = "stop"
  /\ LogIndexes("clearInterval") # {}
  /\ Registered # {}
  /\ ~ENABLED (\E t \in TimerIds : Tick(t))

\* C12: the participant list of every gameUpdate has one entry per registered
\* participant and no other entry, so its length is the size of the registry
C12_SnapshotIsRegistry ==
  ev.op = "tick" =>
    \A i \in LogIndexes("gameUpdate") :
      /\ Range(ev.log[i][2]) = Registered
      /\ Len(ev.log[i][2]) = Cardinality(Registered)

\* a tick has broadcast a snapshot of two participants
C12_Witness ==
  /\ ev.op = "tick"
  /\ Cardinality(Registered) = 2
  /\ \E i \in LogIndexes("gameUpdate") : Len(ev.log[i][2]) = 2

\* C13: a tick emits gameUpdate (once) exactly when the registry is not empty
\* at the broadcast; with an empty registry it steps the world and emits nothing
C13_BroadcastIffRegistered ==
  ev.op = "tick" =>
    /\ LogIndexes("gameUpdate") # {} <=> Registered # {}
    /\ Cardinality(LogIndexes("gameUpdate")) <= 1
    /\ Registered = {} => ev.log = << <<"step">> >>

\* a tick has run with nobody registered
C13_Witness ==
  /\ ev.op = "tick"
  /\ Registered = {}
  /\ ev.log = << <<"step">> >>

\* C14: after the disconnect handler of a connection the participant is not in
\* the registry, and playerLeft was emitted with the participant already
\* removed; an identifier enters the registry through a connection only, a
\* tick updates registered participants only, and gameUpdate and gameState
\* list registered participants only
C14_GoneAfterDisconnect ==
  /\ [](ev.op = "disconnect" =>
          /\ ev.id \notin Registered
          /\ \A i \in LogIndexes("playerLeft") :
               ev.log[i][2] = ev.id /\ ev.id \notin Range(ev.log[i][3]))
  /\ [](\A i \in LogIndexes("update") : ev.log[i][2] \in Registered)
  /\ [](\A i \in LogIndexes("gameUpdate") : Range(ev.log[i][2]) \subseteq Registered)
  /\ [](\A i \in LogIndexes("gameState") : Range(ev.log[i][3]) \subseteq Registered)
  /\ [][\A c \in SocketIds :
          c \notin Registered /\ c \in Registered' => ev'.op = "connect" /\ ev'.id = c]_vars

\* a participant with a body has been removed by its disconnect while another
\* participant stays registered and the loop is running
C14_Witness ==
  /\ ev.op = "disconnect"
  /\ ev.released # <<>>
  /\ LogIndexes("playerLeft") # {}
  /\ Registered # {}
  /\ ev.id \notin Registered
  /\ timers # {}

\* C15: the update of a participant in a tick reads the input record as the
\* last handler before the tick left it (the accepted inputs merged so far);
\* within the tick nothing but the step, the updates and the broadcast runs
\* and no input record changes, so the broadcast follows the updates with the
\* same records; an input handler runs no update and no broadcast, so an
\* input handled after a tick is read by the next tick at the earliest
C15_TickReadsLatestInput ==
  /\ [][ev'.op = "tick" =>
          /\ \A i \in LogIndexes("update")' :
               /\ ev'.log[i][3] = players[ev'.log[i][2]].input
               /\ ev'.log[i][3] = lastSet[ev'.log[i][2]]
          /\ \A i \in 1..Len(ev'.log) : ev'.log[i][1] \in {"step", "update", "gameUpdate"}
          /\ \A c \in Registered : players'[c].input = players[c].input]_vars
  /\ [][ev'.op \in {"input", "inputNoPlayer"} =>
          /\ ev'.log = <<>>
          /\ ev'.op = "input" /\ ev'.ret =>
               players'[ev'.id].input = lastSet'[ev'.id]]_vars

\* a tick has updated a participant with a record set by an accepted input
C15_Witness ==
  /\ ev.op = "tick"
  /\ \E i \in LogIndexes("update") :
       /\ ev.log[i][3] # NoInput
       /\ ev.log[i][2] \in DOMAIN lastApplied
       /\ ev.log[i][3] = lastSet[ev.log[i][2]]

\* C16: a participant has a rigid body exactly when the world was enabled at
\* its creation (the enabled flag never changes afterwards), its body never
\* changes, and every update of it takes the physics-backed branch exactly
\* when it has a body: never the fallback with a body, never the physics
\* branch without one
C16_OneMovementMode ==
  /\ [](\A c \in Registered : players[c].body # NoBody <=> isEnabled)
  /\ [](ev.op = "tick" =>
          \A i \in LogIndexes("update") :
            ev.log[i][4] = "physics" <=> players[ev.log[i][2]].body # NoBody)
  /\ [][isEnabled' = isEnabled]_vars
  /\ [][\A c \in Registered \cap Registered' :
          ev'.op # "connect" => players'[c].body = players[c].body]_vars

\* a tick has updated two participants that own bodies
C16_Witness ==
  /\ ev.op = "tick"
  /\ Cardinality(Registered) = 2
  /\ \A i \in LogIndexes("update") :
       ev.log[i][4] = "physics" /\ players[ev.log[i][2]].body \in BodyIds

\* C17: when initialize fails (it returns false) the enabled flag is false;
\* no handler sets the flag afterwards; and while the flag is false every
\* registered participant has no body and every update of a tick takes the
\* fallback branch
C17_FailedInitStaysDisabled ==
  /\ [](ev.op = "init" /\ ~ev.ret => ~isEnabled)
  /\ [][~isEnabled => ~isEnabled']_vars
  /\ [](~isEnabled =>
          /\ \A c \in Registered : players[c].body = NoBody
          /\ OwnedBodies(Game) = {}
          /\ ev.op = "tick" => \A i \in LogIndexes("update") : ev.log[i][4] = "simple")

\* after a failed initialize that left no world, a tick has moved two
\* participants through the fallback
C17_Witness ==
  /\ ~isEnabled /\ ~hasWorld
  /\ ev.op = "tick"
  /\ Cardinality(Registered) = 2
  /\ \A i \in LogIndexes("update") : ev.log[i][4] = "simple"

\* C18: while the world is disabled, a call of step, addBody or removeBody
\* leaves the world as it was (its existence, its bodies, its step count and
\* the flag itself) and getDebugData returns the empty list
C18_DisabledWorldFrame ==
  [][~isEnabled =>
       /\ worldBodies' = worldBodies
       /\ hasWorld' = hasWorld
       /\ isEnabled' = isEnabled
       /\ call'.stepnumber = call.stepnumber
       /\ call'.fn = "getDebugData" => call'.ret = <<>>]_vars

\* step has been called on a world that exists but is disabled
C18_Witness ==
  /\ ~isEnabled
  /\ hasWorld
  /\ call.fn = "step"
  /\ call.done

\* C20: in a physics-mode update, when the body reaches the boundary step
\* with |x| or |z| above the world radius or y below the floor, the update
\* leaves it at the respawn point (0, 5, 0) with linear and angular velocity
\* zero; when it reaches the step inside the bounds, the update leaves it as
\* it reached the step
C20_BoundaryReset ==
  ev.op = "tick" =>
    IF \/ Abs(ev.atBoundary.position.x) > Boundary
       \/ Abs(ev.atBoundary.position.z) > Boundary
       \/ ev.atBoundary.position.y < Floor
      THEN /\ thePlayer.body.position = Vec3(0, RespawnHeight, 0)
           /\ thePlayer.body.velocity = Vec3(0, 0, 0)
           /\ thePlayer.body.angularVelocity = Vec3(0, 0, 0)
      ELSE thePlayer.body = ev.atBoundary

\* a spinning body that the solver left below the floor has been reset
C20_Witness ==
  /\ ev.op = "tick"
  /\ ev.atBoundary.position.y < Floor
  /\ ev.atBoundary.angularVelocity.y # 0
  /\ thePlayer.body.position = Vec3(0, RespawnHeight, 0)

\* C19: in a physics-mode update with jump asserted, a Player found in the
\* air keeps the vertical velocity the solver left (the boundary reset
\* aside); a Player found on the ground gets the jump speed as vertical
\* velocity and its grounded flag cleared; and while jump stays asserted the
\* vertical velocity is not set to the jump speed again before an update has
\* found the Player in the air and a later one has found it on the ground
C19_JumpGate ==
  [][ev'.op = "tick" /\ thePlayer.input.jump =>
       /\ ~ev'.grounded =>
            /\ ~ev'.jumped
            /\ ev'.atBoundary.velocity.y = ev'.solved.velocity.y
       /\ ev'.grounded =>
            /\ ev'.jumped
            /\ ev'.atBoundary.velocity.y = JUMP_FORCE
            /\ ~thePlayer'.onGround
       /\ ev'.jumped => ev.sinceJump # "jumped"]_vars

\* the two parts of C19 that each concern one update
C19_SingleUpdate ==
  [][ev'.op = "tick" /\ thePlayer.input.jump =>
       /\ ~ev'.grounded =>
            /\ ~ev'.jumped
            /\ ev'.atBoundary.velocity.y = ev'.solved.velocity.y
       /\ ev'.grounded =>
            /\ ev'.jumped
            /\ ev'.atBoundary.velocity.y = JUMP_FORCE
            /\ ~thePlayer'.onGround]_vars

\* with jump held, two updates in a row have set the vertical velocity to the
\* jump speed, the second without any update having found the Player in the
\* air in between
C19_Retrigger ==
  /\ ev.op = "tick"
  /\ ev.jumped
  /\ ev.retrigger
  /\ thePlayer.input.jump
  /\ thePlayer.body.velocity.y = JUMP_FORCE

\* ---------------------------------------------------------------------
\* Player.update without a body or with physics disabled: the fallback
\* (updateSimpleMovement).  Units as above: positions in tenths, velocities
\* in tenths per second, elapsed time in microseconds.
\* ---------------------------------------------------------------------

VELOCITY_LERP == 18

\* the bound of Math.max(-50, Math.min(50, ...)), in tenths
SimpleBound == 500

\* the floor of Math.max(0, position.y)
SimpleFloor == 0

\* bounds on the ticks of one followed fallback run and on the input
\* records it receives
MaxSimpleTicks == 4

MaxSimpleInputs == 2

\* the Player a disabled world constructs: createPhysicsBody stores the
\* position and a zero velocity and creates no body
newSimplePlayer(x, y, z) ==
  [input |-> NoInput, onGround |-> FALSE,
   position |-> Vec3(x, y, z), velocity |-> Vec3(0, 0, 0)]

\* !this.body || !this.physicsWorld.isPhysicsEnabled()
usesFallback(p) == "body" \notin DOMAIN p \/ ~isEnabled

\* the elapsed time updateSimpleMovement works with: its own
\* "if (deltaTime > 0.1) deltaTime = deltaTime / 1000"
simpleDelta(deltaTime) ==
  IF deltaTime > MsThreshold THEN deltaTime \div 1000 ELSE deltaTime

\* variant of simpleTarget: the diagonal is not scaled down
simpleTargetRaw(input) ==
  [x |-> (IF input.right THEN SPEED ELSE 0) - (IF input.left THEN SPEED ELSE 0),
   z |-> (IF input.backward THEN SPEED ELSE 0) - (IF input.forward THEN SPEED ELSE 0)]

\* the target velocity of updateSimpleMovement
simpleTarget(input) ==
  LET targetX == (IF input.right THEN SPEED ELSE 0) - (IF input.left THEN SPEED ELSE 0)
      targetZ == (IF input.backward THEN SPEED ELSE 0) - (IF input.forward THEN SPEED ELSE 0)
      len == Hypot(targetX, targetZ)
  IN  IF len > SPEED
        THEN [x |-> Trunc(targetX * SPEED, len), z |-> Trunc(targetZ * SPEED, len)]
        ELSE [x |-> targetX, z |-> targetZ]

\* Math.min(1, VELOCITY_LERP * deltaTime), in thousandths
simpleLerp(dt) == Min2(1000, (VELOCITY_LERP * dt) \div 1000)

\* velocity * deltaTime in tenths, the time taken in steps of 0.1 ms
travel(v, dt) == Trunc(v * (dt \div 100), 10000)

\* variant of integrateSimple: the jump intent sets the vertical velocity
integrateSimpleJump(p, deltaTime) ==
  LET dt == simpleDelta(deltaTime)
      target == simpleTarget(p.input)
      lerp == simpleLerp(dt)
      vx == p.velocity.x + Trunc((target.x - p.velocity.x) * lerp, 1000)
      vy == IF p.input.jump THEN JUMP_FORCE ELSE p.velocity.y
      vz == p.velocity.z + Trunc((target.z - p.velocity.z) * lerp, 1000)
  IN  [p EXCEPT !.velocity = Vec3(vx, vy, vz),
                !.position = [@ EXCEPT !.x = @ + travel(vx, dt),
                                       !.y = @ + vy,
                                       !.z = @ + travel(vz, dt)]]

\* variant of integrateSimple: the position is advanced by the velocity the
\* update found, not by the one it has just set
integrateSimpleStale(p, deltaTime) ==
  LET dt == simpleDelta(deltaTime)
      target == simpleTarget(p.input)
      lerp == simpleLerp(dt)
      vx == p.velocity.x + Trunc((target.x - p.velocity.x) * lerp, 1000)
      vz == p.velocity.z + Trunc((target.z - p.velocity.z) * lerp, 1000)
  IN  [p EXCEPT !.velocity = [@ EXCEPT !.x = vx, !.z = vz],
                !.position = [@ EXCEPT !.x = @ + travel(p.velocity.x, dt),
                                       !.z = @ + travel(p.velocity.z, dt)]]

\* updateSimpleMovement up to the clamp: the velocity approaches the target
\* and the position is advanced by it
integrateSimple(p, deltaTime) ==
  LET dt == simpleDelta(deltaTime)
      target == simpleTarget(p.input)
      lerp == simpleLerp(dt)
      vx == p.velocity.x + Trunc((target.x - p.velocity.x) * lerp, 1000)
      vz == p.velocity.z + Trunc((target.z - p.velocity.z) * lerp, 1000)
  IN  [p EXCEPT !.velocity = [@ EXCEPT !.x = vx, !.z = vz],
                !.position = [@ EXCEPT !.x = @ + travel(vx, dt),
                                       !.z = @ + travel(vz, dt)]]

Max2(a, b) == IF a >= b THEN a ELSE b

\* variant of clampSimple: a position outside the bound is put back at the
\* respawn point
clampSimpleRespawn(p) ==
  IF Abs(p.position.x) > SimpleBound \/ Abs(p.position.z) > SimpleBound
       \/ p.position.y < SimpleFloor
    THEN [p EXCEPT !.position = Vec3(0, RespawnHeight, 0)]
    ELSE p

\* the three clamps that end updateSimpleMovement
clampSimple(p) ==
  [p EXCEPT !.position =
     [x |-> Max2(-SimpleBound, Min2(SimpleBound, @.x)),
      y |-> Max2(SimpleFloor, @.y),
      z |-> Max2(-SimpleBound, Min2(SimpleBound, @.z))]]

updateSimpleMovement(p, deltaTime) == clampSimple(integrateSimple(p, deltaTime))

\* the fallback branch of Player.update: update normalises the elapsed time
\* and hands it to updateSimpleMovement
updateFallback(p, deltaTime) == updateSimpleMovement(p, normalizeDelta(deltaTime))

\* the elapsed time a fallback update is called with: 16 ms and 0.1 s in
\* seconds, 16 (a caller counting in milliseconds) and 2000
SimpleDeltas == {16000, 100000, 16000000, 2000000000}

\* accepted input records: one key each, two keys at right angles, two
\* opposite keys
SimpleInputs ==
  {JSObj(k :> v) : k \in Range(validInputs), v \in BOOLEAN}
  \cup {JSObj("left" :> TRUE @@ "forward" :> TRUE),
        JSObj("right" :> TRUE @@ "backward" :> TRUE),
        JSObj("left" :> TRUE @@ "right" :> TRUE)}

\* where the followed run finds the Player at rest, x and z: where addPlayer
\* put it, or near a corner of the clamped area after earlier movement
SimpleStarts == {<<0, 0>>, <<-50, 49>>, <<450, -300>>}

\* the ticks made from rest with one input record and one elapsed time
NoRun == [input |-> NoInput, arg |-> 0, n |-> 0]

\* history of the followed fallback Player: the argument of its last update,
\* the elapsed time the movement was integrated over, the Player before the
\* update, its position after the integration and before the clamps, the
\* current run and the number of ticks made
SimpleEvent(op, arg, used, before, integrated, run, ticks, inputs) ==
  [op |-> op, arg |-> arg, used |-> used, before |-> before,
   integrated |-> integrated, run |-> run, ticks |-> ticks, inputs |-> inputs]

InitSimple ==
  /\ isEnabled = FALSE
  /\ hasWorld = FALSE
  /\ worldBodies = {}
  /\ players = EmptyMap
  /\ playerOrder = <<>>
  /\ gameLoopInterval = NoTimer
  /\ timers = {}
  /\ lastInputTime = EmptyMap
  /\ now = StartTime
  /\ connected = {}
  /\ lastApplied = EmptyMap
  /\ lastSet = EmptyMap
  /\ call = NoCall
  /\ \E at \in SimpleStarts : thePlayer = newSimplePlayer(at[1], SpawnHeight, at[2])
  /\ ev = SimpleEvent("init", 0, 0, thePlayer, thePlayer.position, NoRun, 0, 0)

\* one tick as the followed fallback Player sees it: update(deltaTime), the
\* ticks of one run all made with the same elapsed time
SimpleTick(deltaTime) ==
  /\ ev.ticks < MaxSimpleTicks
  /\ ev.ticks = 0 \/ deltaTime = ev.arg
  /\ usesFallback(thePlayer)
  /\ thePlayer' = updateFallback(thePlayer, deltaTime)
  /\ ev' = SimpleEvent("tick", deltaTime, simpleDelta(normalizeDelta(deltaTime)),
             thePlayer,
             integrateSimple(thePlayer, normalizeDelta(deltaTime)).position,
             IF ev.run.n > 0 /\ ev.run.input = thePlayer.input /\ ev.run.arg = deltaTime
               THEN [ev.run EXCEPT !.n = @ + 1]
             ELSE IF thePlayer.velocity = Vec3(0, 0, 0)
               THEN [input |-> thePlayer.input, arg |-> deltaTime, n |-> 1]
             ELSE NoRun,
             ev.ticks + 1, ev.inputs)
  /\ UNCHANGED <<isEnabled, hasWorld, worldBodies, players, playerOrder,
                 gameLoopInterval, timers, lastInputTime, now, connected,
                 lastApplied, lastSet, call>>

\* an accepted playerInput of the followed fallback Player
SimpleSetInput(inputData) ==
  /\ ev.inputs < MaxSimpleInputs
  /\ thePlayer' = updateInput(thePlayer, inputData)
  /\ ev' = SimpleEvent("input", ev.arg, ev.used, thePlayer, thePlayer.position,
             IF thePlayer'.input = thePlayer.input THEN ev.run ELSE NoRun,
             ev.ticks, ev.inputs + 1)
  /\ UNCHANGED <<isEnabled, hasWorld, worldBodies, players, playerOrder,
                 gameLoopInterval, timers, lastInputTime, now, connected,
                 lastApplied, lastSet, call>>

NextSimple ==
  \/ \E deltaTime \in SimpleDeltas : SimpleTick(deltaTime)
  \/ \E inputData \in SimpleInputs : SimpleSetInput(inputData)

SpecSimple == InitSimple /\ [][NextSimple]_vars

\* ---------------------------------------------------------------------
\* Fallback movement
\* ---------------------------------------------------------------------

\* a coordinate moved to the nearest end of [lo, hi]
Nearest(v, lo, hi) == IF v < lo THEN lo ELSE IF v > hi THEN hi ELSE v

C22_WithinPhysicsRadius ==
  ev.op = "tick" =>
    /\ Abs(thePlayer.position.x) <= Boundary
    /\ Abs(thePlayer.position.z) <= Boundary

\* a fallback update has left the Player at its own bound, beyond that radius
C22_BeyondPhysicsRadius ==
  /\ ev.op = "tick"
  /\ Abs(thePlayer.position.x) = SimpleBound
  /\ OutOfBounds(thePlayer.position)

\* C23: a fallback update integrates its movement over the elapsed time
\* normalised exactly once: an argument above the threshold divided by 1000,
\* any other argument unchanged; that is the elapsed time the physics-backed
\* path works with for the same argument
C23_NormalisedOnce ==
  ev.op = "tick" =>
    /\ ev.used = (IF ev.arg > MsThreshold THEN ev.arg \div 1000 ELSE ev.arg)
    /\ ev.used = normalizeDelta(ev.arg)

\* a fallback update called with 2000 has advanced the velocity and the
\* position by what two milliseconds give, a thousandth of what the
\* physics-backed path works with
C23_DividedTwice ==
  /\ ev.op = "tick"
  /\ ev.arg = 2000000000
  /\ ev.before.input.right /\ ~ev.before.input.left
  /\ ev.before.velocity.x = 0
  /\ ev.used * 1000 = normalizeDelta(ev.arg)
  /\ thePlayer.velocity.x = Trunc(SPEED * simpleLerp(ev.used), 1000)
  /\ ev.integrated.x = ev.before.position.x + travel(thePlayer.velocity.x, ev.used)
  /\ ev.integrated.x > ev.before.position.x

\* ---------------------------------------------------------------------
\* The target velocity and the approach to it, as functions: one call of the
\* approach of either movement mode on a Player with any of the 32 input
\* records, moving at no more than SPEED.
\* ---------------------------------------------------------------------

AllInputs == [Range(validInputs) -> BOOLEAN]

\* horizontal velocities of magnitude at most SPEED: at rest, at top speed
\* along an axis, on a diagonal and in between
ApproachVelocities ==
  {Vec3(0, 0, 0), Vec3(SPEED, 0, 0), Vec3(0, 0, -SPEED), Vec3(-16970, 0, 16970),
   Vec3(12000, 0, 20784), Vec3(-5000, 0, -300)}

\* the elapsed time of the approach, normalised: 16 ms and 2 ms
ApproachDeltas == {16000, 2000}

InitApproach ==
  /\ isEnabled \in BOOLEAN
  /\ hasWorld = isEnabled
  /\ worldBodies = IF isEnabled THEN {Ground, 1} ELSE {}
  /\ players = EmptyMap
  /\ playerOrder = <<>>
  /\ gameLoopInterval = NoTimer
  /\ timers = {}
  /\ lastInputTime = EmptyMap
  /\ now = StartTime
  /\ connected = {}
  /\ lastApplied = EmptyMap
  /\ lastSet = EmptyMap
  /\ ev = [op |-> "init"]
  /\ \E input \in AllInputs, v \in ApproachVelocities :
       thePlayer =
         IF isEnabled
           THEN [newPlayer(0, 10, 0) EXCEPT !.input = input, !.onGround = TRUE,
                                            !.velocity = v, !.body.velocity = v]
           ELSE [newSimplePlayer(0, SpawnHeight, 0) EXCEPT !.input = input, !.velocity = v]
  /\ \E dt \in ApproachDeltas :
       call = [fn |-> "approach", arg |-> dt, done |-> FALSE, ret |-> JSUndefined]

\* the approach of the mode the Player is in: the driven branch of
\* applyMovementForces, or updateSimpleMovement up to its clamps; the call
\* returns the target it used and the velocity it found
ApproachCall ==
  /\ call.fn = "approach"
  /\ ~call.done
  /\ thePlayer' = IF usesFallback(thePlayer)
                    THEN integrateSimple(thePlayer, call.arg)
                    ELSE applyMovementForces(thePlayer, call.arg)
  /\ call' = [call EXCEPT !.done = TRUE,
                !.ret = [target |-> IF usesFallback(thePlayer)
                                      THEN simpleTarget(thePlayer.input)
                                      ELSE targetVelocity(thePlayer.input),
                         from |-> thePlayer.velocity]]
  /\ UNCHANGED <<isEnabled, hasWorld, worldBodies, players, playerOrder,
                 gameLoopInterval, timers, lastInputTime, now, connected,
                 lastApplied, lastSet, ev>>

NextApproach == ApproachCall

SpecApproach == InitApproach /\ [][NextApproach]_vars

\* the horizontal velocity the approach left: the body's in physics mode
approached(p) == IF "body" \in DOMAIN p THEN p.body.velocity ELSE p.velocity

\* SPEED / sqrt(2), rounded down
IsDiagonalSpeed(v) == 2 * v * v <= SPEED * SPEED /\ SPEED * SPEED < 2 * (v + 1) * (v + 1)

\* C24: for each of the 32 input records and in either mode the target
\* velocity has magnitude at most SPEED: opposite keys cancel, one direction
\* gives SPEED on its axis, two directions at right angles give SPEED/sqrt(2)
\* on each axis; and the velocity that approaches the target from a speed of
\* at most SPEED is at most SPEED
C24_TargetWithinSpeed ==
  call.fn = "approach" /\ call.done =>
    LET input == thePlayer.input
        t == call.ret.target
        alongX == input.left # input.right
        alongZ == input.forward # input.backward
    IN  /\ Hypot(t.x, t.z) <= SPEED
        /\ ~alongX => t.x = 0
        /\ ~alongZ => t.z = 0
        /\ alongX /\ ~alongZ => t.x = (IF input.right THEN SPEED ELSE -SPEED)
        /\ alongZ /\ ~alongX => t.z = (IF input.backward THEN SPEED ELSE -SPEED)
        /\ alongX /\ alongZ =>
             /\ IsDiagonalSpeed(Abs(t.x)) /\ IsDiagonalSpeed(Abs(t.z))
             /\ (t.x > 0) = input.right /\ (t.z > 0) = input.backward
        /\ Hypot(call.ret.from.x, call.ret.from.z) <= SPEED
             => Hypot(approached(thePlayer).x, approached(thePlayer).z) <= SPEED

\* a fallback Player moving at SPEED along x has approached a diagonal target
C24_Witness ==
  /\ call.fn = "approach" /\ call.done
  /\ usesFallback(thePlayer)
  /\ thePlayer.input.left /\ thePlayer.input.forward
  /\ ~thePlayer.input.right /\ ~thePlayer.input.backward
  /\ call.ret.from = Vec3(SPEED, 0, 0)
  /\ thePlayer.velocity.x < SPEED /\ thePlayer.velocity.z < 0

\* only the direction key k is asserted
OnlyKey(input, k) == \A j \in Range(validInputs) : input[j] = (j = k)

\* the axis a direction key moves along and its sign
KeyAxis(k) == IF k \in {"left", "right"} THEN "x" ELSE "z"

KeySign(k) == IF k \in {"right", "backward"} THEN 1 ELSE -1

OtherAxis(axis) == IF axis = "x" THEN "z" ELSE "x"

DirectionKeys == {"left", "right", "forward", "backward"}

\* the last update was a tick of a run from rest with only k held
HeldTick(k) == ev.op = "tick" /\ ev.run.n >= 1 /\ OnlyKey(ev.run.input, k)

C26_NoSpinAfterUpdate ==
  ev.op = "tick" => thePlayer.body.angularVelocity = Vec3(0, 0, 0)

\* an update of a body the solver left spinning inside the bounds has
\* stopped the spin about x and z and kept the spin about y
C26_SpinAboutYKept ==
  /\ ev.op = "tick"
  /\ ev.solved.angularVelocity = Vec3(1, 2, 3)
  /\ ~OutOfBounds(ev.solved.position)
  /\ thePlayer.body.angularVelocity = Vec3(0, 2, 0)

\* ---------------------------------------------------------------------
\* Rate-limit bookkeeping and unregistered identifiers
\* ---------------------------------------------------------------------

\* C27: the input handler holds rate-limit entries only for connections that
\* are open: the entry of a connection is gone once its disconnect has been
\* handled and no later event, a late playerInput included, brings it back;
\* so there are never more entries than open connections
C27_EntriesOnlyForOpen ==
  /\ DOMAIN lastInputTime \subseteq connected
  /\ Cardinality(DOMAIN lastInputTime) <= Cardinality(connected)
  /\ ev.op = "disconnect" => ev.id \notin DOMAIN lastInputTime
  /\ ev.op = "inputNoPlayer" /\ ev.id \notin connected => ev.id \notin DOMAIN lastInputTime

\* a disconnect has deleted an entry while another connection keeps its own
C27_Witness ==
  /\ ev.op = "disconnect"
  /\ ev.ret
  /\ ev.id \notin DOMAIN lastInputTime
  /\ DOMAIN lastInputTime # {}

\* C28: a playerInput for an identifier the registry does not hold and a
\* removePlayer of such an identifier change nothing: the registry, every
\* participant, the bodies of the physics world, the timers and the
\* rate-limit entries stay as they are, nothing is emitted or released, and
\* no exception leaves the handler
C28_UnregisteredNoOp ==
  [][ (\/ ev'.op = "inputNoPlayer"
       \/ ev'.op = "removePlayer" /\ ev'.id \notin DOMAIN players)
      => /\ players' = players
         /\ playerOrder' = playerOrder
         /\ worldBodies' = worldBodies
         /\ lastInputTime' = lastInputTime
         /\ gameLoopInterval' = gameLoopInterval
         /\ timers' = timers
         /\ ev'.log = <<>>
         /\ ev'.released = <<>>
         /\ ~ev'.ret
         /\ ~ev'.threw ]_vars

\* a playerInput for an unregistered identifier has been handled while
\* another participant is registered with a body and a rate-limit entry
C28_Witness ==
  /\ ev.op = "inputNoPlayer"
  /\ ev.id \notin DOMAIN players
  /\ players # EmptyMap
  /\ OwnedBodies(Game) # {}
  /\ lastInputTime # EmptyMap

\* ---------------------------------------------------------------------
\* Connection
\* ---------------------------------------------------------------------

\* C29: the connection handler registers the new participant and then sends
\* its socket, and no other, a gameState whose playerId is the socket's id
\* and whose list holds the new participant and every participant registered
\* before; after it playerJoined for the new participant goes to the other
\* sockets only.  A participant enters the registry only in this handler and
\* a gameUpdate lists only participants registered before its tick, so the
\* gameState precedes every gameUpdate that lists the new participant
C29_ConnectGreeting ==
  [][ /\ ev'.op = "connect" =>
           /\ ev'.id \in DOMAIN players'
           /\ Len(ev'.log) = 2
           /\ ev'.log[1][1] = "gameState"
           /\ ev'.log[1][2] = ev'.id
           /\ Range(ev'.log[1][3]) = DOMAIN players \cup {ev'.id}
           /\ ev'.log[1][4] = {ev'.id}
           /\ ev'.log[2] = <<"playerJoined", ev'.id, connected' \ {ev'.id}>>
      /\ \A c \in DOMAIN players' \ DOMAIN players : ev'.op = "connect" /\ ev'.id = c
      /\ \A i \in 1..Len(ev'.log) :
           ev'.log[i][1] = "gameUpdate" =>
             ev'.op = "tick" /\ Range(ev'.log[i][2]) \subseteq DOMAIN players ]_vars

\* a second socket has connected: its gameState lists both participants and
\* playerJoined went to the first socket
C29_Witness ==
  /\ ev.op = "connect"
  /\ Len(ev.log[1][3]) = 2
  /\ ev.log[1][4] = {ev.id}
  /\ ev.log[2][3] = connected \ {ev.id}
  /\ ev.log[2][3] # {}

\* ---------------------------------------------------------------------
\* A tick in which one participant's update throws
\* ---------------------------------------------------------------------

\* the callback of an active interval timer, the update of bad throwing
ThrowingTick(t, bad) ==
  /\ ~ev.threw
  /\ t \in timers
  /\ bad \in DOMAIN players
  /\ LET g == gameLoopThrowing(Game, bad)
     IN  /\ SetGame(g)
         /\ KeepHistory(g)
         /\ ev' = Event("tick", bad, FALSE, JSUndefined, g)
  /\ UNCHANGED <<thePlayer, isEnabled, hasWorld, lastInputTime, now, connected, call>>

NextThrowing ==
  \/ \E c \in SocketIds : Connect(c)
  \/ \E c \in SocketIds, inputData \in InputMessages : PlayerInput(c, inputData)
  \/ \E c \in SocketIds : Disconnect(c)
  \/ \E c \in SocketIds : Ping(c)
  \/ \E t \in TimerIds : Tick(t)
  \/ \E t \in TimerIds, bad \in SocketIds : ThrowingTick(t, bad)
  \/ StartGameLoop
  \/ StopGameLoop
  \/ Shutdown
  \/ \E c \in SocketIds : RemovePlayer(c)
  \/ AdvanceClock

SpecThrowing == Init /\ [][NextThrowing]_vars

\* C30: a tick in which one participant's update throws still updates every
\* other registered participant and broadcasts the snapshot; the exception
\* does not leave the tick, and the loop's timer stays active for later ticks
C30_FailureContained ==
  ev.op = "tick" /\ ev.id # "" =>
    /\ \A p \in Registered \ {ev.id} :
         \E i \in LogIndexes("update") : ev.log[i][2] = p
    /\ LogIndexes("gameUpdate") # {}
    /\ ~ev.threw
    /\ timers # {}

\* with two participants registered the update of the first has thrown: the
\* second was not updated, nothing was broadcast, the exception left the tick
C30_TickAborted ==
  /\ ev.op = "tick"
  /\ Len(playerOrder) = 2
  /\ ev.id = playerOrder[1]
  /\ ev.threw
  /\ LogIndexes("update") = {}
  /\ LogIndexes("gameUpdate") = {}
  /\ LogIndexes("throw") # {}

\* ---------------------------------------------------------------------
\* Snapshots.  getState returns the Player's own position and velocity
\* objects, not copies, so a snapshot is followed together with the heap:
\* thePlayer carries the identities of its two objects, call holds the
\* objects by identity and the snapshot a caller keeps.
\* ---------------------------------------------------------------------

\* identities of the objects a Player and one kept snapshot can refer to
ObjectIds == 1..6

\* bound on the ticks of one followed run
MaxSnapshotTicks == 2

\* the bodies the solver step may leave, the rays and the elapsed times of
\* the followed run
SnapshotBodies ==
  {[position |-> Vec3(0, 4, 0), velocity |-> Vec3(0, 0, 0), angularVelocity |-> Vec3(0, 0, 0)],
   [position |-> Vec3(10, 30, -20), velocity |-> Vec3(0, -20, 0), angularVelocity |-> Vec3(1, 2, 3)],
   [position |-> Vec3(481, 4, 0), velocity |-> Vec3(0, -20, 0), angularVelocity |-> Vec3(1, 2, 3)]}

SnapshotRays == {[hasHit |-> FALSE, distance |-> -1], [hasHit |-> TRUE, distance |-> 100]}

SnapshotDeltas == {16000}

NoSnapshot == [held |-> FALSE]

\* Player.getState: the position and velocity entries are the Player's
\* objects themselves, the grounded flag is a value
getState(p) ==
  [held |-> TRUE, position |-> p.positionRef, velocity |-> p.velocityRef,
   onGround |-> p.onGround]

\* the objects still referred to by the Player or the kept snapshot
Live(p, snap) ==
  {p.positionRef, p.velocityRef}
    \cup (IF snap.held THEN {snap.position, snap.velocity} ELSE {})

\* the fallback update writes into the Player's objects:
\* this.velocity.x += ..., this.position.x += ..., this.position.x = Math.max(...)
storeSimple(p, updated, heap, snap) ==
  [player |-> updated,
   heap |-> [i \in Live(updated, snap) |->
               IF i = p.positionRef THEN updated.position
               ELSE IF i = p.velocityRef THEN updated.velocity ELSE heap[i]]]

\* the physics-backed update assigns the Player new objects:
\* this.position = { x: pos.x, ... }, this.velocity = { x: vel.x, ... }
storePhysics(p, updated, heap, snap) ==
  LET free == ObjectIds \ Live(p, snap)
      a == CHOOSE i \in free : \A j \in free : i <= j
      b == CHOOSE i \in free \ {a} : \A j \in free \ {a} : i <= j
      q == [updated EXCEPT !.positionRef = a, !.velocityRef = b]
  IN  [player |-> q,
       heap |-> [i \in Live(q, snap) |->
                   IF i = a THEN updated.position
                   ELSE IF i = b THEN updated.velocity ELSE heap[i]]]

\* history of the followed run: the last operation, the number of ticks and
\* the values the kept snapshot had when it was built
SnapshotEvent(op, ticks, built) == [op |-> op, ticks |-> ticks, built |-> built]

InitSnapshot ==
  /\ isEnabled \in BOOLEAN
  /\ hasWorld = isEnabled
  /\ worldBodies = IF isEnabled THEN {Ground, 1} ELSE {}
  /\ players = EmptyMap
  /\ playerOrder = <<>>
  /\ gameLoopInterval = NoTimer
  /\ timers = {}
  /\ lastInputTime = EmptyMap
  /\ now = StartTime
  /\ connected = {}
  /\ lastApplied = EmptyMap
  /\ lastSet = EmptyMap
  /\ \E at \in SimpleStarts :
       thePlayer = (IF isEnabled THEN newPlayer(at[1], SpawnHeight, at[2])
                                 ELSE newSimplePlayer(at[1], SpawnHeight, at[2]))
                     @@ [positionRef |-> 1, velocityRef |-> 2]
  /\ call = [fn |-> "getState", snap |-> NoSnapshot,
             heap |-> (1 :> thePlayer.position @@ 2 :> thePlayer.velocity)]
  /\ ev = SnapshotEvent("init", 0, NoSnapshot)

\* getGameState or broadcastGameState builds a snapshot and the caller keeps it
TakeSnapshot ==
  /\ ~call.snap.held
  /\ call' = [call EXCEPT !.snap = getState(thePlayer)]
  /\ ev' = SnapshotEvent("snapshot", ev.ticks,
             [held |-> TRUE, position |-> thePlayer.position,
              velocity |-> thePlayer.velocity, onGround |-> thePlayer.onGround])
  /\ UNCHANGED <<thePlayer, isEnabled, hasWorld, worldBodies, players, playerOrder,
                 gameLoopInterval, timers, lastInputTime, now, connected,
                 lastApplied, lastSet>>

\* one tick of the followed Player in the mode it is in
SnapshotTick(solved, ray, deltaTime) ==
  /\ ev.ticks < MaxSnapshotTicks
  /\ \E r \in {IF usesFallback(thePlayer)
                 THEN storeSimple(thePlayer, updateFallback(thePlayer, deltaTime),
                                  call.heap, call.snap)
                 ELSE storePhysics(thePlayer,
                                   updatePhysics([thePlayer EXCEPT !.body = solved],
                                                 ray, deltaTime),
                                   call.heap, call.snap)} :
       /\ thePlayer' = r.player
       /\ call' = [call EXCEPT !.heap = r.heap]
  /\ ev' = SnapshotEvent("tick", ev.ticks + 1, ev.built)
  /\ UNCHANGED <<isEnabled, hasWorld, worldBodies, players, playerOrder,
                 gameLoopInterval, timers, lastInputTime, now, connected,
                 lastApplied, lastSet>>

\* an accepted playerInput of the followed Player
SnapshotSetInput(inputData) ==
  /\ thePlayer' = updateInput(thePlayer, inputData)
  /\ ev' = SnapshotEvent("input", ev.ticks, ev.built)
  /\ UNCHANGED <<isEnabled, hasWorld, worldBodies, players, playerOrder,
                 gameLoopInterval, timers, lastInputTime, now, connected,
                 lastApplied, lastSet, call>>

NextSnapshot ==
  \/ TakeSnapshot
  \/ \E solved \in SnapshotBodies, ray \in SnapshotRays, deltaTime \in SnapshotDeltas :
       SnapshotTick(solved, ray, deltaTime)
  \/ \E inputData \in PlayerInputs : SnapshotSetInput(inputData)

SpecSnapshot == InitSnapshot /\ [][NextSnapshot]_vars

\* what the kept snapshot reads now
SnapshotNow ==
  [held |-> TRUE, position |-> call.heap[call.snap.position],
   velocity |-> call.heap[call.snap.velocity], onGround |-> call.snap.onGround]

\* C31: a kept snapshot reads the position, velocity and grounded flag it was
\* built with, whatever ticks have updated the Player since, in both modes
C31_SnapshotImmutable ==
  call.snap.held => SnapshotNow = ev.built

\* a kept snapshot of a fallback Player reads a position that a later tick
\* wrote, not the one it was built with
C31_SnapshotFollowsPlayer ==
  /\ call.snap.held
  /\ ~isEnabled
  /\ ev.op = "tick"
  /\ SnapshotNow.position # ev.built.position
  /\ SnapshotNow.position = thePlayer.position

\* in physics mode a kept snapshot keeps its values
C31_PhysicsSnapshotKept ==
  isEnabled /\ call.snap.held => SnapshotNow = ev.built

\* ---------------------------------------------------------------------
\* What a snapshot reports in physics mode
\* ---------------------------------------------------------------------

\* C32: at the broadcast that ends a tick, the position and velocity getState
\* reports for a physics-mode Player are those of its body, the tick's
\* movement, jump and boundary reset included
C32_SnapshotIsBody ==
  ev.op = "tick" =>
    /\ thePlayer.position = thePlayer.body.position
    /\ thePlayer.velocity = thePlayer.body.velocity

\* the update has reset a body the solver left beyond the boundary, and the
\* Player still reports the position and velocity the solver left
C32_ReportsBeforeReset ==
  /\ ev.op = "tick"
  /\ OutOfBounds(ev.solved.position)
  /\ thePlayer.body.position = Vec3(0, RespawnHeight, 0)
  /\ thePlayer.body.velocity = Vec3(0, 0, 0)
  /\ thePlayer.position = ev.solved.position
  /\ thePlayer.velocity = ev.solved.velocity
  /\ thePlayer.position # thePlayer.body.position

\* ---------------------------------------------------------------------
\* The input handler on its own: the inputs of one connection arriving at a
\* clock that advances in steps shorter than the rate-limit window.
\* ---------------------------------------------------------------------

RateStart == 8

RateStep == 8

MaxRateTime == 48

\* drops are counted up to this number
MaxDropsCounted == 2

RateId == "s1"

NoneAccepted == -1

\* what the connection sends: a key pressed, the key released, an empty
\* object, an array (an object whose own keys are its indices and length), an
\* object with an unknown key only, a malformed message
RateMessages ==
  {JSObj([left |-> JSBool(TRUE)]), JSObj([left |-> JSBool(FALSE)]),
   JSObj(EmptyMap), JSObj([length |-> JSNum(0)]), JSObj([speed |-> JSNum(5)]),
   JSUndefined}

\* a structured record none of whose keys is one of validInputs
carriesNoKey(inputData) ==
  /\ ToBoolean(inputData)
  /\ typeof(inputData) = "object"
  /\ DOMAIN inputData.props \cap Range(validInputs) = {}

\* history of the connection: the verdict on its last input, the arrival
\* time of its last accepted input since the entry was last deleted (prior:
\* before the last event), the drops since then (run) and the drops that lay
\* between the last two accepted inputs (between), the message of the last
\* input (arg) and whether the last accepted input carried no key (keyless)
RateEvent(op, ret, valid, accepted, prior, run, between, arg, keyless) ==
  [op |-> op, ret |-> ret, valid |-> valid, accepted |-> accepted,
   prior |-> prior, run |-> run, between |-> between, arg |-> arg,
   keyless |-> keyless]

InitRate ==
  /\ isEnabled = FALSE
  /\ hasWorld = FALSE
  /\ worldBodies = {}
  /\ players = EmptyMap
  /\ playerOrder = <<>>
  /\ gameLoopInterval = NoTimer
  /\ timers = {}
  /\ lastInputTime = EmptyMap
  /\ now = RateStart
  /\ connected = {RateId}
  /\ lastApplied = EmptyMap
  /\ lastSet = EmptyMap
  /\ call = NoCall
  /\ thePlayer = NoPlayer
  /\ ev = RateEvent("init", FALSE, FALSE, NoneAccepted, NoneAccepted, 0, 0,
                    JSUndefined, FALSE)

\* inputHandler.processInput(socket.id, inputData, player)
RateInput(inputData) ==
  LET r == processInput(lastInputTime, RateId, inputData, thePlayer, now)
  IN  /\ thePlayer' = r.player
      /\ lastInputTime' = r.lastInputTime
      /\ ev' = RateEvent("input", r.ret, ToBoolean(validateInput(inputData)),
                 IF r.ret THEN now ELSE ev.accepted,
                 ev.accepted,
                 IF r.ret THEN 0 ELSE Min2(ev.run + 1, MaxDropsCounted),
                 IF r.ret THEN ev.run ELSE ev.between,
                 inputData,
                 IF r.ret THEN carriesNoKey(inputData) ELSE ev.keyless)
      /\ UNCHANGED <<isEnabled, hasWorld, worldBodies, players, playerOrder,
                     gameLoopInterval, timers, now, connected, lastApplied,
                     lastSet, call>>

\* inputHandler.cleanupPlayer(socket.id)
RateCleanup ==
  /\ lastInputTime' = cleanupPlayer(lastInputTime, RateId)
  /\ ev' = RateEvent("cleanup", FALSE, FALSE, NoneAccepted, ev.accepted, 0, 0,
                 JSUndefined, FALSE)
  /\ UNCHANGED <<thePlayer, isEnabled, hasWorld, worldBodies, players, playerOrder,
                 gameLoopInterval, timers, now, connected, lastApplied, lastSet,
                 call>>

\* wall-clock time passes between two inputs
RateClock ==
  /\ now + RateStep <= MaxRateTime
  /\ now' = now + RateStep
  /\ ev' = [ev EXCEPT !.op = "clock"]
  /\ UNCHANGED <<thePlayer, isEnabled, hasWorld, worldBodies, players, playerOrder,
                 gameLoopInterval, timers, lastInputTime, connected, lastApplied,
                 lastSet, call>>

NextRate ==
  \/ \E inputData \in RateMessages : RateInput(inputData)
  \/ RateCleanup
  \/ RateClock

SpecRate == InitRate /\ [][NextRate]_vars

\* C33: a valid input is accepted whenever it arrives at least
\* INPUT_RATE_LIMIT ms after the connection's last accepted input, or when the
\* connection has no entry and the clock is at least INPUT_RATE_LIMIT past
\* zero, however many inputs were dropped since; and a dropped input leaves
\* the entry as it was, so it does not restart the window
C33_WindowFromLastAccepted ==
  [][ev'.op = "input" =>
       /\ (/\ ev'.valid
           /\ \/ RateId \notin DOMAIN lastInputTime /\ now >= INPUT_RATE_LIMIT
              \/ /\ RateId \in DOMAIN lastInputTime
                 /\ ev.accepted # NoneAccepted
                 /\ now - ev.accepted >= INPUT_RATE_LIMIT)
            => ev'.ret /\ lastInputTime'[RateId] = now
       /\ ~ev'.ret => lastInputTime' = lastInputTime]_vars

\* an input is accepted exactly INPUT_RATE_LIMIT ms after the last accepted
\* one, two inputs having been dropped in between
C33_Witness ==
  /\ ev.op = "input"
  /\ ev.ret
  /\ ev.prior # NoneAccepted
  /\ ev.accepted - ev.prior = INPUT_RATE_LIMIT
  /\ ev.between = MaxDropsCounted

\* C34: a structured record that carries none of the recognised keys passes
\* validation and is rate-limited like any input; when it is accepted,
\* processInput returns true, the participant's input record is unchanged
\* and the connection's last-accepted time becomes the arrival time, so an
\* input that arrives less than INPUT_RATE_LIMIT ms after it is dropped
C34_KeylessCountsAsInput ==
  [][ev'.op = "input" =>
       /\ carriesNoKey(ev'.arg) =>
            /\ ev'.valid
            /\ thePlayer' = thePlayer
            /\ (\/ RateId \notin DOMAIN lastInputTime /\ now >= INPUT_RATE_LIMIT
                \/ /\ RateId \in DOMAIN lastInputTime
                   /\ now - lastInputTime[RateId] >= INPUT_RATE_LIMIT)
                 => ev'.ret /\ lastInputTime'[RateId] = now
       /\ (/\ ev.keyless
           /\ ev.accepted # NoneAccepted
           /\ now - ev.accepted < INPUT_RATE_LIMIT)
            => ~ev'.ret /\ thePlayer' = thePlayer]_vars

\* a key press is dropped because a record without keys was accepted less
\* than INPUT_RATE_LIMIT ms before it
C34_Witness ==
  /\ ev.op = "input"
  /\ ev.arg = JSObj([left |-> JSBool(TRUE)])
  /\ ev.valid
  /\ ~ev.ret
  /\ ev.keyless
  /\ ev.accepted # NoneAccepted
  /\ now - ev.accepted < INPUT_RATE_LIMIT
  /\ ~thePlayer.input.left

-----------------------------------------------------------------------------
(* One client and its connection: the keyboard hook, sendInput, the messages
   in flight and the server's playerInput handler *)

\* key events of the client in one run
MaxKeyEvents == 3

\* the keys the client uses
ClientKeys == {"left", "jump"}

\* JSON.stringify of an input record: its keys in order with their values
stringify(input) ==
  [i \in 1..Len(validInputs) |-> <<validInputs[i], input[validInputs[i]]>>]

\* the record as it arrives at the server
toMessage(input) == JSObj([k \in DOMAIN input |-> JSBool(input[k])])

\* sendInput(input) with the socket connected
sendInput(c, input) ==
  IF stringify(input) # c.lastInputSent
    THEN [c EXCEPT !.channel = Append(@, toMessage(input)),
                   !.lastInputSent = stringify(input)]
    ELSE c

ClientEvent(op, ret, keys) == [op |-> op, ret |-> ret, keys |-> keys]

\* the participant is registered and its socket connected; the clock is past
\* the first window, as Date.now() always is
InitClient ==
  /\ isEnabled = FALSE
  /\ hasWorld = FALSE
  /\ worldBodies = {}
  /\ players = EmptyMap
  /\ playerOrder = <<>>
  /\ gameLoopInterval = NoTimer
  /\ timers = {}
  /\ lastInputTime = EmptyMap
  /\ now = INPUT_RATE_LIMIT
  /\ connected = {RateId}
  /\ lastApplied = EmptyMap
  /\ lastSet = EmptyMap
  /\ thePlayer = NoPlayer
  /\ call = [fn |-> "client", inputRef |-> NoInput, lastInputSent |-> <<>>,
             channel |-> <<>>]
  /\ ev = ClientEvent("init", FALSE, 0)

\* handleKeyDown for the key bound to k
KeyDown(k) ==
  /\ ev.keys < MaxKeyEvents
  /\ IF ~call.inputRef[k]
       THEN \E pressed \in {[call.inputRef EXCEPT ![k] = TRUE]} :
              call' = sendInput([call EXCEPT !.inputRef = pressed], pressed)
       ELSE call' = call
  /\ ev' = ClientEvent("keydown", FALSE, ev.keys + 1)
  /\ UNCHANGED <<thePlayer, isEnabled, hasWorld, worldBodies, players, playerOrder,
                 gameLoopInterval, timers, lastInputTime, now, connected,
                 lastApplied, lastSet>>

\* handleKeyUp for the key bound to k
KeyUp(k) ==
  /\ ev.keys < MaxKeyEvents
  /\ IF call.inputRef[k]
       THEN \E released \in {[call.inputRef EXCEPT ![k] = FALSE]} :
              call' = sendInput([call EXCEPT !.inputRef = released], released)
       ELSE call' = call
  /\ ev' = ClientEvent("keyup", FALSE, ev.keys + 1)
  /\ UNCHANGED <<thePlayer, isEnabled, hasWorld, worldBodies, players, playerOrder,
                 gameLoopInterval, timers, lastInputTime, now, connected,
                 lastApplied, lastSet>>

\* socket.on('playerInput') for the oldest message in flight
DeliverInput ==
  /\ call.channel # <<>>
  /\ LET r == processInput(lastInputTime, RateId, Head(call.channel), thePlayer, now)
     IN  /\ thePlayer' = r.player
         /\ lastInputTime' = r.lastInputTime
         /\ ev' = ClientEvent("deliver", r.ret, ev.keys)
  /\ call' = [call EXCEPT !.channel = Tail(@)]
  /\ UNCHANGED <<isEnabled, hasWorld, worldBodies, players, playerOrder,
                 gameLoopInterval, timers, now, connected, lastApplied, lastSet>>

NextClient ==
  \/ \E k \in ClientKeys : KeyDown(k)
  \/ \E k \in ClientKeys : KeyUp(k)
  \/ DeliverInput
  \/ RateClock

SpecClient == InitClient /\ [][NextClient]_vars

\* C35: whenever every message the client sent has been delivered, the input
\* record the server holds for the participant equals the client's input
\* state, so a client that stops changing its keys is matched by the server
C35_ServerInputConverged ==
  call.channel = <<>> => thePlayer.input = call.inputRef

\* the client pressed and released a key, both messages were delivered, the
\* release was dropped by the rate limit and the key stays asserted
C35_ReleaseDropped ==
  /\ call.channel = <<>>
  /\ ev.op = "deliver"
  /\ ~ev.ret
  /\ call.inputRef = NoInput
  /\ thePlayer.input.left

-----------------------------------------------------------------------------
\* C36: every connection id with a rate-limit entry is the id of a registered
\* participant, so the size reported by getStats never exceeds the count
\* reported by getGameStats
C36_EntriesOnlyForRegistered ==
  /\ DOMAIN lastInputTime \subseteq DOMAIN players
  /\ Cardinality(DOMAIN lastInputTime) <= Cardinality(DOMAIN players)

\* GameManager.shutdown has emptied the registry while an open connection
\* that sent input before still has its rate-limit entry
C36_EntryOutlivesShutdown ==
  /\ ev.op = "shutdown"
  /\ players = EmptyMap
  /\ \E c \in connected : c \in DOMAIN lastInputTime

-----------------------------------------------------------------------------
(* The GameManager's registry driven by direct addPlayer and removePlayer   *)
(* calls, for any identifier, registered or not                             *)

\* GameManager.addPlayer called directly; ev.ret tells whether the identifier
\* was registered before the call
AddPlayer(c) ==
  /\ ~ev.threw
  /\ isEnabled => FreeBodies(Game) # {}
  /\ LET g == addPlayer(Game, c)
     IN  /\ SetGame(g)
         /\ ev' = Event("addPlayer", c, c \in DOMAIN players, JSUndefined, g)
         /\ lastSet' = [k \in DOMAIN g.players |->
                          IF k = c THEN NoInput ELSE lastSet[k]]
         /\ lastApplied' = Restrict(lastApplied, DOMAIN g.players \ {c})
  /\ UNCHANGED <<thePlayer, isEnabled, hasWorld, lastInputTime, now, connected, call>>

NextRegistry ==
  \/ \E c \in SocketIds : AddPlayer(c)
  \/ \E c \in SocketIds : RemovePlayer(c)

SpecRegistry == Init /\ [][NextRegistry]_vars

\* the bodies of participants in the physics world
ParticipantBodies == worldBodies \ {Ground}

\* C37: with physics enabled, the number of participant bodies in the physics
\* world equals the number of registered participants
C37_BodyPerParticipant ==
  isEnabled => Cardinality(ParticipantBodies) = Cardinality(DOMAIN players)

\* addPlayer for a registered identifier has left the body of the replaced
\* entry in the world, owned by no participant
C37_ReplacedBodyLeft ==
  /\ isEnabled
  /\ ev.op = "addPlayer"
  /\ ev.ret
  /\ ParticipantBodies \ OwnedBodies(Game) # {}

-----------------------------------------------------------------------------
\* C38: in fallback mode no tick and no input raises the participant's y
\* coordinate, which changes only by the clamp to the floor; its vertical
\* velocity stays 0; its grounded flag stays false and every snapshot built
\* of it reports it as not grounded, whatever the jump intent
C38_JumpIgnoredInFallback ==
  [][usesFallback(thePlayer) =>
       /\ thePlayer.velocity.y = 0 /\ ~thePlayer.onGround
       /\ thePlayer'.position.y <= thePlayer.position.y
       /\ thePlayer'.position.y # thePlayer.position.y
            => thePlayer'.position.y = SimpleFloor
       /\ thePlayer'.velocity.y = 0
       /\ ~thePlayer'.onGround
       /\ call'.snap.held => ~call'.snap.onGround]_vars

\* a fallback participant with the jump intent set has been ticked twice and
\* a snapshot of it is held: it is still at its spawn height
C38_Witness ==
  /\ usesFallback(thePlayer)
  /\ thePlayer.input.jump
  /\ ev.op = "tick"
  /\ ev.ticks = MaxSnapshotTicks
  /\ call.snap.held
  /\ ~call.snap.onGround
  /\ thePlayer.position.y = SpawnHeight

====
